---- MODULE Spec2Model ----
(***************************************************************************)
(* A model of neorevue.py (IFS NEO Data Extractor): the document           *)
(* extraction pipeline (flattening, profile mapping, requirement           *)
(* resolution, non-conformity filter), the work save written by            *)
(* save_work_to_excel, its reading by load_work_from_excel, and the resume *)
(* mode that prepares the loaded sheets for editing and saves them again.  *)
(*                                                                         *)
(* Cell values are strings.  pandas' missing value (NaN / None) is the     *)
(* distinguished string NaN.  A DataFrame is a record                      *)
(*   [cols |-> sequence of column names, rows |-> sequence of rows]        *)
(* where a row is a function from the set of column names to cell values.  *)
(* An optional value (None, or a key absent from st.session_state) is the  *)
(* empty sequence; a present value v is <<v>>.                             *)
(***************************************************************************)
EXTENDS Integers, Sequences, FiniteSets, TLC

VARIABLES
    \* ---- st.session_state, report mode ("Traitement des rapports IFS")
    current_profile_data,      \* st.session_state['current_profile_data']
    current_checklist_data,    \* st.session_state['current_checklist_data']
    current_non_conformities,  \* st.session_state['current_non_conformities']
    edited_profile,            \* st.session_state['edited_profile'] (optional)
    edited_checklist,          \* st.session_state['edited_checklist'] (optional)
    edited_nc,                 \* st.session_state['edited_nc'] (optional)
    \* ---- the last run of the report-mode script
    json_data,                 \* the uploaded document of the last run (optional)
    flattened_json_data,       \* the local flattened_json_data of the last run
    selected_labels,           \* the labels given to the last extract_from_flattened call
    extracted_data,            \* what that call returned (optional)
    run_errors,                \* the st.error messages of the last run
    run_raised,                \* the last run reached one of the except handlers
    uuid_mapping_df,           \* the local uuid_mapping_df of the last run, when assigned
    \* ---- work save / load
    save_args,                 \* the arguments of the last save_work_to_excel call
    work_file,                 \* the workbook of the last save (optional)
    final_report,              \* the workbook the last run's create_final_report_excel returned
    uploaded_work_file,        \* the workbook given to the resume-mode uploader
    load_result,               \* what load_work_from_excel returned for it
    \* ---- resume mode ("Reprendre un travail sauvegardé")
    prepared,                  \* the table the displayed tab prepared for editing
    edited_profile_work,       \* st.session_state['edited_profile_work']
    edited_checklist_work,     \* st.session_state['edited_checklist_work']
    edited_nc_work,            \* st.session_state['edited_nc_work']
    loaded_work_data,          \* st.session_state['loaded_work_data'], set with work_mode
    resumed_from               \* history: the legacy sheet the session started from

docVars    == <<current_profile_data, current_checklist_data,
                current_non_conformities, edited_profile, edited_checklist,
                edited_nc, json_data, flattened_json_data, selected_labels,
                extracted_data, run_errors, run_raised, uuid_mapping_df,
                final_report>>
saveVars   == <<save_args, work_file>>
loadVars   == <<uploaded_work_file, load_result>>
resumeVars == <<prepared, edited_profile_work, edited_checklist_work,
                edited_nc_work, loaded_work_data, resumed_from>>
vars       == <<docVars, saveVars, loadVars, resumeVars>>

-----------------------------------------------------------------------------
(* Generic helpers                                                         *)

None == <<>>
Some(v) == <<v>>
IsNone(o) == Len(o) = 0
The(o) == o[1]

Range(s) == {s[i] : i \in DOMAIN s}

RECURSIVE SeqsUpTo(_, _)
\* all sequences over S of length at most n
SeqsUpTo(S, n) ==
    IF n = 0 THEN {<<>>}
    ELSE LET shorter == SeqsUpTo(S, n - 1)
         IN  shorter \cup {Append(s, x) : s \in {t \in shorter : Len(t) = n - 1}, x \in S}

\* the subsequence of s whose elements satisfy Keep, order preserved
RECURSIVE SelectSeqBy(_, _)
SelectSeqBy(s, keep) ==
    IF s = <<>> THEN <<>>
    ELSE IF Head(s) \in keep THEN <<Head(s)>> \o SelectSeqBy(Tail(s), keep)
         ELSE SelectSeqBy(Tail(s), keep)

-----------------------------------------------------------------------------
(* DataFrames                                                              *)

NaN == "<NaN>"

EmptyFrame == [cols |-> <<>>, rows |-> <<>>]

HasCol(df, c) == \E i \in DOMAIN df.cols : df.cols[i] = c

\* df[c] = v for a scalar v: overwrite the column, or append it as last column
SetColConst(df, c, v) ==
    [cols |-> IF HasCol(df, c) THEN df.cols ELSE Append(df.cols, c),
     rows |-> [i \in DOMAIN df.rows |->
                 [x \in DOMAIN df.rows[i] \cup {c} |->
                     IF x = c THEN v ELSE df.rows[i][x]]]]

\* df[c] = df[from]: the column from, copied row by row
SetColFrom(df, c, from) ==
    [cols |-> IF HasCol(df, c) THEN df.cols ELSE Append(df.cols, c),
     rows |-> [i \in DOMAIN df.rows |->
                 [x \in DOMAIN df.rows[i] \cup {c} |->
                     IF x = c THEN df.rows[i][from] ELSE df.rows[i][x]]]]

\* pd.DataFrame(list of dicts with the keys cols)
FrameOf(cols, records) == [cols |-> IF records = <<>> THEN <<>> ELSE cols,
                           rows |-> records]

\* the values of column c, row by row
Column(df, c) == [i \in DOMAIN df.rows |-> df.rows[i][c]]

-----------------------------------------------------------------------------
(* JSON values and Python dicts                                            *)
(* A JSON value is an object (an ordered sequence of <<key, value>> pairs  *)
(* with distinct keys), an array (the sequence of its <<index, value>>     *)
(* pairs), or a scalar; null is the scalar NaN.                            *)
(* A Python dict is the sequence of its <<key, value>> items, in insertion *)
(* order.                                                                  *)

\* str(i) for the array indices of the model
IndexStr(i) == CASE i = 0 -> "0" [] i = 1 -> "1" [] i = 2 -> "2" [] OTHER -> "3"

JObj(items)  == [type |-> "dict", items |-> items]
JList(items) == [type |-> "list",
                 items |-> [i \in DOMAIN items |-> <<IndexStr(i - 1), items[i]>>]]
JVal(v)      == [type |-> "scalar", value |-> v]
JNull        == JVal(NaN)

HasKey(d, k) == \E i \in DOMAIN d : d[i][1] = k
Get(d, k)    == d[CHOOSE i \in DOMAIN d : d[i][1] = k][2]
\* d.get(k, default)
GetOr(d, k, default) == IF HasKey(d, k) THEN Get(d, k) ELSE default
Keys(d)      == [i \in DOMAIN d |-> d[i][1]]

\* d[k] = v
Put(d, k, v) ==
    IF HasKey(d, k)
    THEN [i \in DOMAIN d |-> IF d[i][1] = k THEN <<k, v>> ELSE d[i]]
    ELSE Append(d, <<k, v>>)

\* dict(items)
RECURSIVE DictOf(_)
DictOf(items) ==
    IF items = <<>> THEN <<>>
    ELSE LET n == Len(items)
         IN  Put(DictOf(SubSeq(items, 1, n - 1)), items[n][1], items[n][2])

\* the cell value of a flattened value: a scalar is itself; a list that was
\* not recursed into is kept as an opaque value
ScalarOf(j) == IF j.type = "scalar" THEN j.value ELSE "<list>"

-----------------------------------------------------------------------------
(* flatten_json_safe and extract_from_flattened                            *)

RECURSIVE flatten_json_safe(_, _), FlattenDictItems(_, _, _), FlattenListItems(_, _, _)

\* lines 30-31: the items contributed by the elements i.. of the list v
FlattenListItems(v, new_key, i) ==
    IF i > Len(v) THEN <<>>
    ELSE flatten_json_safe(v[i][2], new_key \o "_" \o IndexStr(i - 1))
            \o FlattenListItems(v, new_key, i + 1)

\* lines 25-33: the items contributed by the entries i.. of a dict
FlattenDictItems(kv, parent_key, i) ==
    IF i > Len(kv) THEN <<>>
    ELSE LET k == kv[i][1]
             v == kv[i][2]
             new_key == IF parent_key # "" THEN parent_key \o "_" \o k ELSE k
             here == IF v.type = "dict" THEN flatten_json_safe(v, new_key)
                     ELSE IF v.type = "list" THEN FlattenListItems(v.items, new_key, 1)
                     ELSE << <<new_key, v>> >>
         IN  here \o FlattenDictItems(kv, parent_key, i + 1)

flatten_json_safe(nested_json, parent_key) ==
    DictOf(IF nested_json.type = "dict"
           THEN FlattenDictItems(nested_json.items, parent_key, 1)
           ELSE << <<parent_key, nested_json>> >>)

\* the entries of FLATTENED_FIELD_MAPPING the program reads by label, and the
\* one whose path goes through an array index
FLATTENED_FIELD_MAPPING ==
    << <<"Nom du site à auditer", "data_modules_food_8_questions_companyName_answer">>,
       <<"N° COID du portail", "data_modules_food_8_questions_companyCoid_answer">>,
       <<"Code GLN", "data_modules_food_8_questions_companyGln_answer_0_rootQuestions_companyGlnNumber_answer">>,
       <<"Pays", "data_modules_food_8_questions_companyCountry_answer">> >>

RECURSIVE ExtractFrom(_, _, _, _)
ExtractFrom(flattened_data, mapping, selected_fields, i) ==
    IF i > Len(mapping) THEN <<>>
    ELSE LET label == mapping[i][1]
             flat_path == mapping[i][2]
             rest == ExtractFrom(flattened_data, mapping, selected_fields, i + 1)
         IN  IF label \in Range(selected_fields)
             THEN << <<label, ScalarOf(GetOr(flattened_data, flat_path, JVal("N/A")))>> >> \o rest
             ELSE rest

\* the extraction with the labels taken in the order of the selection
RECURSIVE extract_from_flattened_SelectionOrder(_, _, _)
extract_from_flattened_SelectionOrder(flattened_data, mapping, selected_fields) ==
    IF selected_fields = <<>> THEN <<>>
    ELSE LET label == Head(selected_fields)
             rest == extract_from_flattened_SelectionOrder(flattened_data, mapping,
                                                           Tail(selected_fields))
         IN  IF HasKey(mapping, label)
             THEN Put(rest, label,
                      ScalarOf(GetOr(flattened_data, Get(mapping, label), JVal("N/A"))))
             ELSE rest

extract_from_flattened(flattened_data, mapping, selected_fields) ==
    ExtractFrom(flattened_data, mapping, selected_fields, 1)

-----------------------------------------------------------------------------
(* load_uuid_mapping_from_url                                              *)
(* The HTTP response is [kind, status_code, csv]: kind "exception" when    *)
(* requests.get or read_csv raises, csv the DataFrame read_csv returns.    *)

CSV_REQUIRED == <<"UUID", "Num", "Chapitre", "Theme", "SSTheme">>

\* str(v).strip() on the cell values of the model; str(NaN) is "nan"
StrStrip(v) == CASE v = NaN -> "nan" [] v = " 1 " -> "1" [] OTHER -> v

\* drop_duplicates(subset=['Chapitre', 'Num']): keep the first row of each pair
RECURSIVE DropDuplicates(_)
DropDuplicates(rows) ==
    IF rows = <<>> THEN <<>>
    ELSE LET n == Len(rows)
             before == SubSeq(rows, 1, n - 1)
             last == rows[n]
         IN  IF \E i \in DOMAIN before :
                    /\ before[i]["Chapitre"] = last["Chapitre"]
                    /\ before[i]["Num"] = last["Num"]
             THEN DropDuplicates(before)
             ELSE Append(DropDuplicates(before), last)

\* lines 83-85
CleanMapping(rows) ==
    LET kept == SelectSeqBy(rows, {r \in Range(rows) : r["UUID"] # NaN /\ r["Num"] # NaN})
        stripped == [i \in DOMAIN kept |->
                        [kept[i] EXCEPT !["Chapitre"] = StrStrip(kept[i]["Chapitre"])]]
    IN  DropDuplicates(stripped)

\* returns [df, error]: the table, and whether st.error was called
load_uuid_mapping_from_url(response) ==
    IF response.kind = "exception"
    THEN [df |-> EmptyFrame, error |-> TRUE]
    ELSE IF response.status_code = "200"
    THEN IF \E i \in DOMAIN CSV_REQUIRED : ~HasCol(response.csv, CSV_REQUIRED[i])
         THEN [df |-> EmptyFrame, error |-> TRUE]
         ELSE [df |-> [cols |-> response.csv.cols,
                       rows |-> CleanMapping(response.csv.rows)],
               error |-> FALSE]
    ELSE [df |-> EmptyFrame, error |-> TRUE]

\* DataFrame.empty
IsEmpty(df) == df.rows = <<>> \/ df.cols = <<>>

-----------------------------------------------------------------------------
(* Checklist extraction, lines 617-687                                     *)

\* the lookup written as v[k1][k2]... without the membership tests: a missing
\* key raises KeyError
RECURSIVE ChainIn_Indexing(_, _, _)
ChainIn_Indexing(v, keys, i) ==
    IF i > Len(keys) THEN "true"
    ELSE IF v.type = "scalar" THEN "raise"
    ELSE IF ~(v.type = "dict" /\ HasKey(v.items, keys[i])) THEN "raise"
    ELSE ChainIn_Indexing(Get(v.items, keys[i]), keys, i + 1)

\* k1 in v and k2 in v[k1] and ...: "true", "false", or "raise" when the
\* operand of `in` is None (TypeError)
RECURSIVE ChainIn(_, _, _)
ChainIn(v, keys, i) ==
    IF i > Len(keys) THEN "true"
    ELSE IF v.type = "scalar" THEN "raise"
    ELSE IF ~(v.type = "dict" /\ HasKey(v.items, keys[i])) THEN "false"
    ELSE ChainIn(Get(v.items, keys[i]), keys, i + 1)

\* v[k1][k2]..., for a chain that ChainIn found present
RECURSIVE Descend(_, _, _)
Descend(v, keys, i) ==
    IF i > Len(keys) THEN v ELSE Descend(Get(v.items, keys[i]), keys, i + 1)

\* lines 632-640: uuid_to_info, a later row overwriting an earlier one
RECURSIVE UuidToInfo(_)
UuidToInfo(rows) ==
    IF rows = <<>> THEN <<>>
    ELSE LET n == Len(rows)
             row == rows[n]
         IN  Put(UuidToInfo(SubSeq(rows, 1, n - 1)), row["UUID"],
                 [Num |-> row["Num"], Chapitre |-> row["Chapitre"],
                  Theme |-> row["Theme"], SSTheme |-> row["SSTheme"]])

CHECKLIST_KEYS == <<"Num", "UUID", "Chapitre", "Theme", "SSTheme", "Explication",
                    "Explication détaillée", "Score", "Réponse">>

\* lines 660-664 raise KeyError on an entry without 'answers', 'score' or
\* score['label']
EntryRaises(scoring) ==
    \/ ~HasKey(scoring.items, "answers")
    \/ ~HasKey(scoring.items, "score")
    \/ ~HasKey(Get(scoring.items, "score").items, "label")

\* lines 646-676: the record of one scoring entry that does not raise
EntryRecord(uuid, scoring, uuid_to_info) ==
    LET mapped == HasKey(uuid_to_info, uuid)
        mapped_info == Get(uuid_to_info, uuid)
        answers == Get(scoring.items, "answers").items
    IN  [k \in Range(CHECKLIST_KEYS) |->
            CASE k = "Num" -> IF mapped THEN mapped_info.Num ELSE uuid
              [] k = "UUID" -> uuid
              [] k = "Chapitre" -> IF mapped THEN mapped_info.Chapitre ELSE "N/A"
              [] k = "Theme" -> IF mapped THEN mapped_info.Theme ELSE "N/A"
              [] k = "SSTheme" -> IF mapped THEN mapped_info.SSTheme ELSE "N/A"
              [] k = "Explication" ->
                    ScalarOf(GetOr(answers, "englishExplanationText", JVal("N/A")))
              [] k = "Explication détaillée" ->
                    ScalarOf(GetOr(answers, "explanationText", JVal("N/A")))
              [] k = "Score" ->
                    ScalarOf(Get(Get(scoring.items, "score").items, "label"))
              [] OTHER ->
                    ScalarOf(GetOr(answers, "fieldAnswers", JVal("N/A")))]

\* lines 617-684: [raised, errors, checklist_data, mapping]; mapping is the
\* optional uuid_mapping_df, assigned only when resultScorings is found
ExtractChecklist(doc, response) ==
    LET failed(msg) == [raised |-> FALSE, errors |-> {msg},
                        checklist_data |-> <<>>, mapping |-> None]
        crash == [raised |-> TRUE, errors |-> {"Erreur lors du traitement du fichier"},
                  checklist_data |-> <<>>, mapping |-> None]
        c1 == ChainIn(doc, <<"data", "modules", "food_8">>, 1)
        food_8 == Descend(doc, <<"data", "modules", "food_8">>, 1)
        c2 == ChainIn(food_8, <<"checklists", "checklistFood8">>, 1)
        checklistFood8 == Descend(food_8, <<"checklists", "checklistFood8">>, 1)
        c3 == ChainIn(checklistFood8, <<"resultScorings">>, 1)
        result_scorings == Get(checklistFood8.items, "resultScorings")
        loaded == load_uuid_mapping_from_url(response)
        mapping_errors == IF loaded.error
                          THEN {"Erreur lors du chargement du mapping UUID"} ELSE {}
        uuid_to_info == IF IsEmpty(loaded.df) THEN <<>> ELSE UuidToInfo(loaded.df.rows)
        entries == result_scorings.items
    IN  IF c1 = "raise" THEN crash
        ELSE IF c1 = "false" THEN failed("Structure JSON invalide - données manquantes")
        ELSE IF c2 = "raise" THEN crash
        ELSE IF c2 = "false" THEN failed("Structure de checklist non trouvée dans le fichier JSON")
        ELSE IF c3 = "raise" THEN crash
        ELSE IF c3 = "false" THEN failed("Aucun 'resultScorings' trouvé dans le fichier JSON")
        ELSE IF result_scorings.type = "scalar" THEN crash
        ELSE IF \E i \in DOMAIN entries : EntryRaises(entries[i][2])
        THEN [crash EXCEPT !.errors = @ \cup mapping_errors,
                           !.mapping = Some(loaded.df)]
        ELSE [raised |-> FALSE,
              errors |-> mapping_errors,
              checklist_data |-> [i \in DOMAIN entries |->
                                    EntryRecord(entries[i][1], entries[i][2], uuid_to_info)],
              mapping |-> Some(loaded.df)]

COMPLIANT_SCORES == {"A", "N/A", "NA", "Non applicable"}

\* the filter of line 687 with the labels compared without regard to case
NonConformities_CaseInsensitive(checklist_data) ==
    SelectSeqBy(checklist_data,
                {item \in Range(checklist_data) :
                    item["Score"] \notin COMPLIANT_SCORES
                                         \cup {"a", "n/a", "na", "non applicable"}})

\* line 687
NonConformities(checklist_data) ==
    SelectSeqBy(checklist_data,
                {item \in Range(checklist_data) : item["Score"] \notin COMPLIANT_SCORES})

-----------------------------------------------------------------------------
(* The documents and id tables of the model                                *)

MaxEntries == 2

\* the scoring entries of the model: <<identifier, what the entry holds, label>>
ENTRIES == { <<"u1", "full", "A">>, <<"u2", "bare", "C">>, <<"u3", "full", "NA">> }

\* entries that lack 'answers', 'score' or the label of the score
MALFORMED_ENTRIES == { <<"u4", "no_answers", "C">>, <<"u5", "no_score", "A">>,
                       <<"u6", "no_label", "A">> }

Answers(shape) ==
    IF shape = "bare" THEN JObj(<<>>)
    ELSE JObj(<< <<"englishExplanationText", JVal("text")>>,
                 <<"explanationText", JVal("detail")>>,
                 <<"fieldAnswers", JVal("answer")>> >>)

Scoring(entry) ==
    LET shape == entry[2]
        answers == IF shape = "no_answers" THEN <<>>
                   ELSE << <<"answers", Answers(shape)>> >>
        score == IF shape = "no_score" THEN <<>>
                 ELSE IF shape = "no_label" THEN << <<"score", JObj(<<>>)>> >>
                 ELSE << <<"score", JObj(<< <<"label", JVal(entry[3])>> >>)>> >>
    IN  JObj(answers \o score)

Distinct(s) == \A i, j \in DOMAIN s : i # j => s[i] # s[j]

\* resultScorings is a dict: the identifiers of its entries are distinct.
\* A list of the model holds well-formed entries in any order, and at most
\* one malformed entry, at its end.
WellFormedLists == {s \in SeqsUpTo(ENTRIES, MaxEntries) : Distinct(s)}

ScoringLists ==
    WellFormedLists
    \cup {Append(s, e) : s \in {t \in WellFormedLists : Len(t) < MaxEntries},
                         e \in MALFORMED_ENTRIES}

ResultScorings(s) == JObj([i \in DOMAIN s |-> <<s[i][1], Scoring(s[i])>>])

PATH_KEYS == <<"data", "modules", "food_8", "checklists", "checklistFood8",
               "resultScorings">>

Questions(name) ==
    IF IsNone(name) THEN JObj(<<>>)
    ELSE JObj(<< <<"companyName", JObj(<< <<"answer", JVal(The(name))>> >>)>>,
                 <<"companyCoid", JObj(<< <<"answer", JVal("123")>> >>)>> >>)

\* The document that holds the first depth keys of PATH_KEYS; the value under
\* the last of them is a dict (stop = "dict": the scoring entries at depth 6,
\* a dict without the next key above) or null (stop = "scalar").  The
\* questions are a sibling of "checklists" inside food_8.
RECURSIVE Level(_, _, _, _, _)
Level(d, depth, stop, name, scorings) ==
    LET extra == IF d = 3 THEN << <<"questions", Questions(name)>> >> ELSE <<>>
    IN  IF d = depth
        THEN IF stop = "scalar" THEN JNull
             ELSE IF d = 6 THEN ResultScorings(scorings)
             ELSE JObj(extra)
        ELSE JObj(extra \o << <<PATH_KEYS[d + 1],
                                Level(d + 1, depth, stop, name, scorings)>> >>)

Document(depth, stop, name, scorings) == Level(0, depth, stop, name, scorings)

Names == {None, Some("Usine 1")}

Documents ==
    {Document(6, "dict", name, s) : name \in Names, s \in ScoringLists}
    \cup {Document(depth, stop, name, <<>>) :
            depth \in 0..6, stop \in {"dict", "scalar"}, name \in Names}

MappingRow(uuid, num, chapitre) ==
    [UUID |-> uuid, Num |-> num, Chapitre |-> chapitre,
     Theme |-> "theme", SSTheme |-> "sstheme"]

Csv(rows) == [cols |-> CSV_REQUIRED, rows |-> rows]

\* what requests.get(UUID_MAPPING_URL) answers
Responses ==
    { [kind |-> "response", status_code |-> "200",
       csv |-> Csv(<< MappingRow("u1", "1.1.1", " 1 "), MappingRow("u2", "1.1.2", "1"),
                      MappingRow("u2", "1.1.1", "1"), MappingRow(NaN, "1.1.3", "1") >>)],
      [kind |-> "response", status_code |-> "200",
       csv |-> [cols |-> <<"UUID", "Num">>, rows |-> <<>>]],
      [kind |-> "response", status_code |-> "404", csv |-> EmptyFrame],
      [kind |-> "exception", status_code |-> "", csv |-> EmptyFrame] }

-----------------------------------------------------------------------------
(* Report mode: one run of the script with a document uploaded,            *)
(* lines 603-1105                                                          *)

\* str(value), line 813
Str(v) == IF v = NaN THEN "None" ELSE v

PROFILE_COLUMNS == <<"Champ", "Valeur", "Commentaire du reviewer", "Réponse de l'auditeur">>

\* lines 808-838: the Profile tab; comment is what the user typed in the
\* reviewer cell of the first row of the editor
ProfileTab(profile_data, comment) ==
    FrameOf(PROFILE_COLUMNS,
        [i \in DOMAIN profile_data |->
            [k \in Range(PROFILE_COLUMNS) |->
                CASE k = "Champ" -> profile_data[i][1]
                  [] k = "Valeur" -> Str(profile_data[i][2])
                  [] k = "Commentaire du reviewer" -> IF i = 1 THEN comment ELSE ""
                  [] OTHER -> ""]])

ProfileOf(doc) ==
    extract_from_flattened(flatten_json_safe(doc, ""), FLATTENED_FIELD_MAPPING,
                           Keys(FLATTENED_FIELD_MAPPING))

-----------------------------------------------------------------------------
(* Workbooks                                                               *)
(* A workbook file is [readable, sheets]: sheets is the dict of its sheets *)
(* by name, a sheet being a DataFrame of the cells as they are stored in   *)
(* the file, where "" is a blank cell.                                     *)

\* the strings pd.read_excel reads as a missing value (keep_default_na)
NA_VALUES == {"", "N/A", "NA", "NaN", "nan", "None", "null", "NULL", "n/a",
              "#N/A", "<NA>"}

\* DataFrame.to_excel: a missing value and an empty string both leave the
\* cell blank
WriteCell(v) == IF v = NaN THEN "" ELSE v

\* pd.read_excel: a blank cell and the strings of NA_VALUES are read as NaN
ReadCell(c) == IF c \in NA_VALUES THEN NaN ELSE c

to_excel(df) ==
    [cols |-> df.cols,
     rows |-> [i \in DOMAIN df.rows |->
                 [c \in DOMAIN df.rows[i] |-> WriteCell(df.rows[i][c])]]]

ReadSheet(sheet) ==
    [cols |-> sheet.cols,
     rows |-> [i \in DOMAIN sheet.rows |->
                 [c \in DOMAIN sheet.rows[i] |-> ReadCell(sheet.rows[i][c])]]]

\* pd.read_excel(uploaded_file, sheet_name=None), line 338
read_excel(file) == [i \in DOMAIN file.sheets |->
                        <<file.sheets[i][1], ReadSheet(file.sheets[i][2])>>]

Workbook(sheets) == [readable |-> TRUE, sheets |-> sheets]

-----------------------------------------------------------------------------
(* save_work_to_excel, lines 164-332                                       *)

METADATA_COLUMNS == <<"Type", "COID", "Company_Name", "Date", "Purpose">>

MetadataFrame(coid, company_name, purpose) ==
    [cols |-> METADATA_COLUMNS,
     rows |-> << [c \in Range(METADATA_COLUMNS) |->
                    CASE c = "Type" -> "IFS_WORK_SAVE"
                      [] c = "COID" -> coid
                      [] c = "Company_Name" -> company_name
                      [] c = "Date" -> "2024-01-01 00:00:00"
                      [] OTHER -> purpose] >>]

\* lines 232-233, 259-260: df[new] = df.get(legacy, "") when new is missing
EnsureComment(df, new, legacy) ==
    IF HasCol(df, new) THEN df
    ELSE IF HasCol(df, legacy) THEN SetColFrom(df, new, legacy)
    ELSE SetColConst(df, new, "")

\* lines 234-235, 261-262, 302-307: df[col] = default when col is missing
EnsureColumn(df, col, default) ==
    IF HasCol(df, col) THEN df ELSE SetColConst(df, col, default)

\* lines 222-235
ProfileSaveFrame(profile_data, edited) ==
    LET df == IF ~IsNone(edited) THEN The(edited)
              ELSE FrameOf(PROFILE_COLUMNS,
                     [i \in DOMAIN profile_data |->
                        [k \in Range(PROFILE_COLUMNS) |->
                            CASE k = "Champ" -> profile_data[i][1]
                              [] k = "Valeur" -> profile_data[i][2]
                              [] OTHER -> ""]])
    IN  EnsureColumn(EnsureComment(df, "Commentaire du reviewer", "Commentaire"),
                     "Réponse de l'auditeur", "")

\* lines 250-262
ChecklistSaveFrame(checklist_data, edited) ==
    LET df == IF ~IsNone(edited) THEN The(edited)
              ELSE SetColConst(SetColConst(FrameOf(CHECKLIST_KEYS, checklist_data),
                                           "Commentaire du reviewer", ""),
                               "Réponse de l'auditeur", "")
    IN  EnsureColumn(EnsureComment(df, "Commentaire du reviewer", "Commentaire"),
                     "Réponse de l'auditeur", "")

COMMUNICATION_COLUMNS ==
    <<"Commentaire du reviewer", "Réponse de l'auditeur", "Plan d'action proposé",
      "Actions mises en place", "Date limite", "Responsable", "Statut">>

\* every missing column filled with the empty string
DefaultOf_Empty(col) == ""

\* lines 302-307
DefaultOf(col) == IF col = "Statut" THEN "En attente" ELSE ""

\* df[c] = default for the columns i.. of cols that df lacks
RECURSIVE EnsureColumns(_, _, _)
EnsureColumns(df, cols, i) ==
    IF i > Len(cols) THEN df
    ELSE EnsureColumns(EnsureColumn(df, cols[i], DefaultOf(cols[i])), cols, i + 1)

\* df[c] = default for every column i.. of cols
RECURSIVE SetColumns(_, _, _)
SetColumns(df, cols, i) ==
    IF i > Len(cols) THEN df
    ELSE SetColumns(SetColConst(df, cols[i], DefaultOf(cols[i])), cols, i + 1)

\* lines 284-307
NcSaveFrame(non_conformities, edited) ==
    LET df == IF ~IsNone(edited) THEN The(edited)
              ELSE SetColumns(FrameOf(CHECKLIST_KEYS, non_conformities),
                              COMMUNICATION_COLUMNS, 1)
    IN  EnsureColumns(df, COMMUNICATION_COLUMNS, 1)

\* the DataFrames that save_work_to_excel writes, by sheet name
SaveFrames(a) ==
    << <<"METADATA",
         MetadataFrame(a.coid,
                       GetOr(a.profile_data, "Nom du site à auditer", "entreprise_inconnue"),
                       "Communication Reviewer/Auditeur")>>,
       <<"Profile_Communication", ProfileSaveFrame(a.profile_data, a.edited_profile)>>,
       <<"Checklist_Communication", ChecklistSaveFrame(a.checklist_data, a.edited_checklist)>> >>
    \o IF a.non_conformities # <<>>
       THEN << <<"NonConformities_ActionPlan",
                 NcSaveFrame(a.non_conformities, a.edited_nc)>> >>
       ELSE <<>>

\* re.sub of line 171 raises TypeError when the company name is not a string
SaveRaises(a) ==
    GetOr(a.profile_data, "Nom du site à auditer", "entreprise_inconnue") = NaN

\* the arguments when the call ends, had the edited tables been used without
\* a copy: the columns added to a table are added to the caller's table
ArgsAfterSave_NoCopy(a) ==
    IF SaveRaises(a) THEN a
    ELSE [a EXCEPT
            !.edited_profile =
                IF IsNone(@) THEN @ ELSE Some(ProfileSaveFrame(a.profile_data, @)),
            !.edited_checklist =
                IF IsNone(@) THEN @ ELSE Some(ChecklistSaveFrame(a.checklist_data, @)),
            !.edited_nc =
                IF IsNone(@) \/ a.non_conformities = <<>> THEN @
                ELSE Some(NcSaveFrame(a.non_conformities, @))]

\* the arguments when the call ends, returning or raising: lines 224, 252
\* and 285 copy the edited tables before a column is added, the other
\* arguments are only read
ArgsAfterSave(a) == a

\* the workbook returned for the arguments a, when the call does not raise
save_work_to_excel(a) ==
    LET frames == SaveFrames(a)
    IN  Workbook([i \in DOMAIN frames |-> <<frames[i][1], to_excel(frames[i][2])>>])

-----------------------------------------------------------------------------
(* load_work_from_excel, lines 334-376                                     *)

\* the first sheet of names that the workbook has, under the key of work_data
SheetEntry(excel_data, key, names) ==
    IF HasKey(excel_data, names[1]) THEN << <<key, Get(excel_data, names[1])>> >>
    ELSE IF HasKey(excel_data, names[2]) THEN << <<key, Get(excel_data, names[2])>> >>
    ELSE <<>>

\* the load that does not compare the Type of the first row with the marker
load_work_from_excel_AnyType(uploaded_file) ==
    LET excel_data == read_excel(uploaded_file)
        metadata == Get(excel_data, "METADATA")
        rejected(message) == [work_data |-> None, message |-> message]
        caught == rejected("Erreur lors du chargement du fichier de travail")
    IN  IF ~uploaded_file.readable THEN caught
        ELSE IF ~HasKey(excel_data, "METADATA")
        THEN rejected("Ce fichier n'est pas un fichier de travail sauvegardé.")
        ELSE IF metadata.rows = <<>> \/ ~HasCol(metadata, "Type") THEN caught
        ELSE IF ~HasCol(metadata, "COID") \/ ~HasCol(metadata, "Date") THEN caught
        ELSE [work_data |->
                Some(SheetEntry(excel_data, "profile",
                                <<"Profile_Communication", "Profile_Work">>)
                     \o SheetEntry(excel_data, "checklist",
                                   <<"Checklist_Communication", "Checklist_Work">>)
                     \o SheetEntry(excel_data, "nc",
                                   <<"NonConformities_ActionPlan", "NonConformities_Work">>)),
              message |-> "Travail chargé avec succès"]

\* returns [work_data (optional), message]
load_work_from_excel(uploaded_file) ==
    LET excel_data == read_excel(uploaded_file)
        metadata == Get(excel_data, "METADATA")
        rejected(message) == [work_data |-> None, message |-> message]
        caught == rejected("Erreur lors du chargement du fichier de travail")
    IN  IF ~uploaded_file.readable THEN caught
        ELSE IF ~HasKey(excel_data, "METADATA")
        THEN rejected("Ce fichier n'est pas un fichier de travail sauvegardé.")
        ELSE IF metadata.rows = <<>> \/ ~HasCol(metadata, "Type") THEN caught
        ELSE IF metadata.rows[1]["Type"] # "IFS_WORK_SAVE"
        THEN rejected("Ce fichier n'est pas un fichier de travail IFS valide.")
        ELSE IF ~HasCol(metadata, "COID") \/ ~HasCol(metadata, "Date") THEN caught
        ELSE [work_data |->
                Some(SheetEntry(excel_data, "profile",
                                <<"Profile_Communication", "Profile_Work">>)
                     \o SheetEntry(excel_data, "checklist",
                                   <<"Checklist_Communication", "Checklist_Work">>)
                     \o SheetEntry(excel_data, "nc",
                                   <<"NonConformities_ActionPlan", "NonConformities_Work">>)),
              message |-> "Travail chargé avec succès"]

-----------------------------------------------------------------------------
(* Report mode: the tabs and the run                                       *)

BLANKS == {"", " "}

\* lines 874-881: what the content filter keeps
ContentKept(item, content_filter) ==
    LET filled(v) == v # "N/A" /\ v \notin BLANKS
    IN  CASE content_filter = "Explications non vides" ->
                filled(item["Explication"]) \/ filled(item["Explication détaillée"])
          [] content_filter = "Explications vides" ->
                ~filled(item["Explication"]) /\ ~filled(item["Explication détaillée"])
          [] OTHER -> TRUE

\* lines 862-881
FilterChecklist(checklist_data, ui) ==
    SelectSeqBy(checklist_data,
        {item \in Range(checklist_data) :
            /\ ui.score_filter = "Tous" \/ item["Score"] = ui.score_filter
            /\ ui.chapitre_filter = "Tous" \/ Str(item["Chapitre"]) = ui.chapitre_filter
            /\ ContentKept(item, ui.content_filter)})

\* two widgets of one run with the same key: Streamlit raises
DuplicateKeys(items) ==
    \E i, j \in DOMAIN items : i # j /\ items[i]["Num"] = items[j]["Num"]

CHECKLIST_TAB_COLUMNS ==
    <<"Num", "Score", "Chapitre", "Explication", "Explication détaillée",
      "Commentaire du reviewer", "Réponse de l'auditeur">>

\* lines 938-954: the table of the displayed requirements; the user typed
\* ui.comment in the reviewer area of the first of them
ChecklistTable(filtered_checklist, ui) ==
    LET cols == IF ui.show_responses THEN Append(CHECKLIST_TAB_COLUMNS, "Réponse")
                ELSE CHECKLIST_TAB_COLUMNS
    IN  FrameOf(cols,
            [i \in DOMAIN filtered_checklist |->
                [k \in Range(cols) |->
                    CASE k = "Commentaire du reviewer" -> IF i = 1 THEN ui.comment ELSE ""
                      [] k = "Réponse de l'auditeur" -> ""
                      [] OTHER -> filtered_checklist[i][k]]])

NC_TAB_COLUMNS == <<"Num", "Score", "Chapitre", "Explication", "Explication détaillée",
                    "Réponse">> \o COMMUNICATION_COLUMNS

TODAY == "2024-01-01"

\* lines 1077-1096: st.date_input answers today's date, the status box its
\* first option
NcTable(non_conformities, ui) ==
    FrameOf(NC_TAB_COLUMNS,
        [i \in DOMAIN non_conformities |->
            [k \in Range(NC_TAB_COLUMNS) |->
                CASE k = "Commentaire du reviewer" -> IF i = 1 THEN ui.comment ELSE ""
                  [] k = "Date limite" -> TODAY
                  [] k = "Statut" -> "En attente"
                  [] k \in Range(COMMUNICATION_COLUMNS) -> ""
                  [] OTHER -> non_conformities[i][k]]])

\* what the user does in one run of report mode
Ui(tab, comment, content_filter, save) ==
    [tab |-> tab, comment |-> comment, score_filter |-> "Tous",
     chapitre_filter |-> "Tous", content_filter |-> content_filter,
     show_responses |-> TRUE, save |-> save, report |-> FALSE]

\* the widgets as they are when the user touches nothing
DefaultUi == Ui("Profile", "", "Explications non vides", FALSE)

\* the arguments of the call of lines 720-728
SaveArgsOf(run) ==
    [profile_data |-> run.profile_data,
     checklist_data |-> run.stage.checklist_data,
     non_conformities |-> NonConformities(run.stage.checklist_data),
     edited_profile |-> edited_profile,
     edited_checklist |-> edited_checklist,
     edited_nc |-> edited_nc,
     coid |-> GetOr(run.profile_data, "N° COID du portail", "inconnu")]

\* lines 694-702: the counts displayed above the tabs
QuickStats(checklist_data, non_conformities) ==
    [total |-> Len(checklist_data),
     conformes |-> Cardinality({i \in DOMAIN checklist_data :
                                   checklist_data[i]["Score"] \in {"A", "NA"}}),
     non_conformites |-> Len(non_conformities)]

-----------------------------------------------------------------------------
(* generate_audit_summary and create_final_report_excel, lines 94-162 and   *)
(* 378-522; the final report of report mode, lines 746-782                  *)

\* n / d rounded to the nearest integer, a tie going to the even one
RoundHalfEven(n, d) ==
    LET q == n \div d
        r == n % d
    IN  IF 2 * r < d THEN q
        ELSE IF 2 * r > d THEN q + 1
        ELSE IF q % 2 = 0 THEN q ELSE q + 1

\* f"{(n / d) * 100:.1f}%", lines 113-115 and 131-133, for 0 <= n <= d and
\* d > 0: one decimal, the nearest to the value of the float
FormatRate(n, d) ==
    LET tenths == RoundHalfEven(n * 1000, d)
    IN  ToString(tenths \div 10) \o "." \o ToString(tenths % 10) \o "%"

SUMMARY_COLUMNS == <<"Métrique", "Valeur", "Description">>

Metric(name, value, description) ==
    [c \in Range(SUMMARY_COLUMNS) |->
        CASE c = "Métrique" -> name
          [] c = "Valeur" -> value
          [] OTHER -> description]

\* df[c].value_counts().get(v, 0)
CountOf(df, c, v) == Cardinality({i \in DOMAIN df.rows : df.rows[i][c] = v})

\* lines 99-118, for a checklist_df that has the Score column
ChecklistSummary(checklist_df) ==
    IF IsEmpty(checklist_df) THEN <<>>
    ELSE LET total_requirements == Len(checklist_df.rows)
             count(label) == CountOf(checklist_df, "Score", label)
             conformes == count("A") + count("NA")
         IN  << Metric("Total des exigences", ToString(total_requirements),
                       "Nombre total d'exigences auditées"),
                Metric("Score A (Conforme)", ToString(count("A")),
                       "Exigences entièrement conformes"),
                Metric("Score B (Écart mineur)", ToString(count("B")),
                       "Écarts mineurs détectés"),
                Metric("Score C (Écart majeur)", ToString(count("C")),
                       "Écarts majeurs détectés"),
                Metric("Score D (Critique)", ToString(count("D")),
                       "Non-conformités critiques"),
                Metric("Score NA (Non applicable)", ToString(count("NA")),
                       "Exigences non applicables"),
                Metric("Taux de conformité (%)",
                       FormatRate(conformes, total_requirements),
                       "Pourcentage d'exigences conformes ou non applicables") >>

\* lines 121-136
NcSummary(nc_df) ==
    IF IsEmpty(nc_df) THEN <<>>
    ELSE LET nc_total == Len(nc_df.rows)
             count(status) == IF HasCol(nc_df, "Statut")
                              THEN CountOf(nc_df, "Statut", status) ELSE 0
         IN  << Metric("Non-conformités totales", ToString(nc_total),
                       "Nombre total de non-conformités (B, C, D)"),
                Metric("Actions terminées", ToString(count("Terminé")),
                       "Actions correctives terminées"),
                Metric("Actions en cours", ToString(count("En cours")),
                       "Actions correctives en cours"),
                Metric("Actions en attente", ToString(count("En attente")),
                       "Actions correctives en attente"),
                Metric("Taux de résolution (%)", FormatRate(count("Terminé"), nc_total),
                       "Pourcentage d'actions correctives terminées") >>

\* profile_df.set_index('Champ')['Valeur'].to_dict().get(k, "N/A"), lines
\* 141-151: the last row of the field wins
CompanyInfo(profile_df, k) ==
    LET rows == {i \in DOMAIN profile_df.rows : profile_df.rows[i]["Champ"] = k}
    IN  IF ~(HasCol(profile_df, "Champ") /\ HasCol(profile_df, "Valeur")) \/ rows = {}
        THEN "N/A"
        ELSE profile_df.rows[CHOOSE i \in rows : \A j \in rows : j <= i]["Valeur"]

\* lines 139-158; datetime.now() is the date of the model
ProfileSummary(profile_df) ==
    IF IsEmpty(profile_df) THEN <<>>
    ELSE << Metric("Entreprise auditée", CompanyInfo(profile_df, "Nom du site à auditer"),
                   "Nom de l'entreprise"),
            Metric("COID", CompanyInfo(profile_df, "N° COID du portail"), "Numéro COID"),
            Metric("Pays", CompanyInfo(profile_df, "Pays"), "Pays du site audité"),
            Metric("Date d'export", "2024-01-01 00:00",
                   "Date et heure de génération du rapport") >>

generate_audit_summary(checklist_df, nc_df, profile_df) ==
    FrameOf(SUMMARY_COLUMNS,
            ChecklistSummary(checklist_df) \o NcSummary(nc_df) \o ProfileSummary(profile_df))

\* lines 378-443: the sheets of the report; the loop of lines 446-519 writes
\* the cells again with their formats
create_final_report_excel(profile_df, checklist_df, nc_df) ==
    LET summary_df == generate_audit_summary(checklist_df, nc_df, profile_df)
        sheet(name, df) == IF IsEmpty(df) THEN <<>> ELSE << <<name, to_excel(df)>> >>
    IN  Workbook(sheet("Résumé_Audit", summary_df) \o sheet("Profile", profile_df)
                 \o sheet("Checklist", checklist_df)
                 \o sheet("Non-conformities", nc_df))

\* lines 746-782: "Générer le rapport" in report mode, for the data and the
\* edited tables a
FinalReportFrom(a) ==
    LET profile_export_df ==
            IF ~IsNone(a.edited_profile) THEN The(a.edited_profile)
            ELSE FrameOf(PROFILE_COLUMNS,
                    [i \in DOMAIN a.profile_data |->
                        [k \in Range(PROFILE_COLUMNS) |->
                            CASE k = "Champ" -> a.profile_data[i][1]
                              [] k = "Valeur" -> a.profile_data[i][2]
                              [] OTHER -> ""]])
        checklist_export_df ==
            IF ~IsNone(a.edited_checklist) THEN The(a.edited_checklist)
            ELSE SetColConst(SetColConst(FrameOf(CHECKLIST_KEYS, a.checklist_data),
                                         "Commentaire du reviewer", ""),
                             "Réponse de l'auditeur", "")
        nc_export_df ==
            IF a.non_conformities = <<>> THEN EmptyFrame
            ELSE IF ~IsNone(a.edited_nc) THEN The(a.edited_nc)
            ELSE SetColumns(FrameOf(CHECKLIST_KEYS, a.non_conformities),
                            COMMUNICATION_COLUMNS, 1)
    IN  create_final_report_excel(profile_export_df, checklist_export_df, nc_export_df)

\* the report of a run, with the edited tables that the session holds when
\* the run starts
FinalReportOf(run) == FinalReportFrom(SaveArgsOf(run))

\* json.load raises JSONDecodeError: the handler of line 1102 reports it
ReportRunInvalidJson ==
    /\ json_data' = None
    /\ flattened_json_data' = None
    /\ selected_labels' = <<>>
    /\ extracted_data' = None
    /\ run_errors' = {"Erreur lors du décodage du fichier JSON"}
    /\ run_raised' = TRUE
    /\ uuid_mapping_df' = None
    /\ save_args' = None
    /\ work_file' = None
    /\ final_report' = None
    /\ uploaded_work_file' = None
    /\ load_result' = None
    /\ UNCHANGED <<current_profile_data, current_checklist_data,
                   current_non_conformities, edited_profile, edited_checklist,
                   edited_nc>>

\* the run for a document that parses; run holds the document and what the
\* stages of lines 608-684 compute from it, ui what the user does.  The
\* uploader of resume mode is not part of the page: its file is dropped.  The
\* non-conformities, the arguments of the save and the filtered checklist are
\* computed once.
ReportRun(run, ui) ==
    \E non_conformities \in {NonConformities(run.stage.checklist_data)} :
    \E args \in {SaveArgsOf(run)} :
    \E filtered_checklist \in {FilterChecklist(run.stage.checklist_data, ui)} :
    LET crash == "Erreur lors du traitement du fichier"
        save_fails == ui.save /\ SaveRaises(args)
        tab_fails ==
            \/ ui.tab = "Checklist" /\ IsNone(run.stage.mapping)
            \/ ui.tab = "Checklist" /\ DuplicateKeys(filtered_checklist)
            \/ ui.tab = "Non-conformities" /\ DuplicateKeys(non_conformities)
        rendered == ~save_fails /\ ~tab_fails
    IN  /\ json_data' = Some(run.doc)
        /\ flattened_json_data' = Some(run.flattened_json_data)
        /\ selected_labels' = Keys(FLATTENED_FIELD_MAPPING)
        /\ extracted_data' = Some(run.profile_data)
        /\ uuid_mapping_df' = run.stage.mapping
        /\ uploaded_work_file' = None
        /\ load_result' = None
        /\ final_report' = IF ui.report /\ ~run.stage.raised
                           THEN Some(FinalReportOf(run)) ELSE None
        /\ IF run.stage.raised
           THEN /\ run_errors' = run.stage.errors
                /\ run_raised' = TRUE
                /\ save_args' = None
                /\ work_file' = None
                /\ UNCHANGED <<current_profile_data, current_checklist_data,
                               current_non_conformities, edited_profile,
                               edited_checklist, edited_nc>>
           ELSE /\ current_profile_data' = Some(run.profile_data)
                /\ current_checklist_data' = Some(run.stage.checklist_data)
                /\ current_non_conformities' = Some(non_conformities)
                /\ save_args' = IF ui.save THEN Some(args) ELSE None
                /\ work_file' = IF ui.save /\ ~save_fails
                                THEN Some(save_work_to_excel(args)) ELSE None
                /\ run_raised' = ~rendered
                /\ run_errors' = run.stage.errors
                                 \cup (IF rendered THEN {} ELSE {crash})
                /\ edited_profile' =
                        IF rendered /\ ui.tab = "Profile"
                        THEN Some(ProfileTab(run.profile_data, ui.comment))
                        ELSE edited_profile
                /\ edited_checklist' =
                        IF rendered /\ ui.tab = "Checklist" /\ filtered_checklist # <<>>
                        THEN Some(ChecklistTable(filtered_checklist, ui))
                        ELSE edited_checklist
                /\ edited_nc' =
                        IF rendered /\ ui.tab = "Non-conformities" /\ non_conformities # <<>>
                        THEN Some(NcTable(non_conformities, ui))
                        ELSE edited_nc

-----------------------------------------------------------------------------
(* Resume mode ("Reprendre un travail sauvegardé"), lines 1130-1572        *)

\* astype(str).fillna('').replace('nan', '').replace('None', ''), line 60
CleanCell(v) == IF v \in {NaN, "nan", "None"} THEN "" ELSE v

\* df[cols]
Project(df, cols) ==
    [cols |-> cols,
     rows |-> [i \in DOMAIN df.rows |-> [c \in Range(cols) |-> df.rows[i][c]]]]

\* df[c] = series: the values of the series by row index, NaN where it has none
AssignColumn(df, c, series) ==
    [cols |-> IF HasCol(df, c) THEN df.cols ELSE Append(df.cols, c),
     rows |-> [i \in DOMAIN df.rows |->
                 [x \in DOMAIN df.rows[i] \cup {c} |->
                     IF x # c THEN df.rows[i][x]
                     ELSE IF i \in DOMAIN series THEN series[i] ELSE NaN]]]

\* lines 46-65: result is the frame returned, df the frame that was passed
\* as it is after the call (lines 54 and 60 assign its columns in place)
clean_dataframe_for_editor(df, required_columns) ==
    IF IsEmpty(df)
    THEN [result |-> [cols |-> required_columns, rows |-> <<>>], df |-> df]
    ELSE LET filled == EnsureColumns(df, required_columns, 1)
             cleaned ==
                [cols |-> filled.cols,
                 rows |-> [i \in DOMAIN filled.rows |->
                             [c \in DOMAIN filled.rows[i] |->
                                 IF c \in Range(required_columns)
                                 THEN CleanCell(filled.rows[i][c])
                                 ELSE filled.rows[i][c]]]]
         IN  [result |-> Project(cleaned, required_columns), df |-> cleaned]

\* lines 1158-1164: the table handed to the editor of the Profile tab
ResumeProfileTable(profile) ==
    LET cleaned == clean_dataframe_for_editor(profile, PROFILE_COLUMNS)
    IN  IF HasCol(cleaned.df, "Commentaire")
           /\ ~HasCol(cleaned.df, "Commentaire du reviewer")
        THEN AssignColumn(cleaned.result, "Commentaire du reviewer",
                          Column(cleaned.df, "Commentaire"))
        ELSE cleaned.result

\* st.data_editor: the table with what the user typed in the reviewer cell
\* of its first row
Edited(df, edit) ==
    IF IsNone(edit) \/ df.rows = <<>> THEN df
    ELSE [df EXCEPT !.rows[1]["Commentaire du reviewer"] = The(edit)]

\* the alias that copies nothing: a missing current column is left empty
AliasChecklistComment_Blank(df) ==
    IF HasCol(df, "Commentaire du reviewer") THEN df
    ELSE SetColConst(df, "Commentaire du reviewer", "")

\* the overwriting alias: the legacy column always replaces the current one
AliasChecklistComment_Overwrite(df) ==
    IF HasCol(df, "Commentaire")
    THEN SetColFrom(df, "Commentaire du reviewer", "Commentaire")
    ELSE SetColConst(df, "Commentaire du reviewer", "")

\* lines 1193-1197
AliasChecklistComment(df) ==
    IF HasCol(df, "Commentaire du reviewer") THEN df
    ELSE IF HasCol(df, "Commentaire")
    THEN SetColFrom(df, "Commentaire du reviewer", "Commentaire")
    ELSE SetColConst(df, "Commentaire du reviewer", "")

\* lines 1189-1200: the checklist table prepared for editing
ResumeChecklistTable(checklist) ==
    EnsureColumn(AliasChecklistComment(checklist), "Réponse de l'auditeur", "")

\* a column on which the .str accessor raises: it holds no text
NotText(df, c) == df.rows # <<>> /\ \A i \in DOMAIN df.rows : df.rows[i][c] = NaN

\* lines 1223-1240: the rows the filters keep, as indexes of df
FilteredRows(df, ui) ==
    {i \in DOMAIN df.rows :
        /\ ui.score_filter = "Tous" \/ df.rows[i]["Score"] = ui.score_filter
        /\ ui.chapitre_filter = "Tous" \/ ~HasCol(df, "Chapitre")
           \/ Str(df.rows[i]["Chapitre"]) = ui.chapitre_filter
        /\ ContentKept(df.rows[i], ui.content_filter)}

\* the Checklist tab raises: a filter or an expander reads a column the
\* sheet lacks, .str is applied to a column without text, or two displayed
\* rows give the same widget key
ChecklistTabRaises(df, ui) ==
    LET shown == FilteredRows(df, ui)
    IN  \/ ui.score_filter # "Tous" /\ ~HasCol(df, "Score")
        \/ /\ ui.content_filter # "Tous"
           /\ \E c \in {"Explication", "Explication détaillée"} :
                  ~HasCol(df, c) \/ NotText(df, c)
        \/ /\ shown # {}
           /\ \/ \E c \in {"Num", "Score", "Explication", "Explication détaillée"} :
                     ~HasCol(df, c)
              \/ \E i, j \in shown : i # j /\ df.rows[i]["Num"] = df.rows[j]["Num"]

\* pd.notna(v) ? v : ''
Existing(v) == IF v = NaN THEN "" ELSE v

\* lines 1249-1307: the text areas of the displayed rows, filled with the
\* existing values, and the table updated with what they return; the user
\* typed ui.edit in the reviewer area of the first displayed row
UpdateChecklist(df, ui) ==
    LET shown == FilteredRows(df, ui)
        first == CHOOSE i \in shown : \A j \in shown : i <= j
        reviewer(i) == IF i = first /\ ~IsNone(ui.edit) THEN The(ui.edit)
                       ELSE Existing(df.rows[i]["Commentaire du reviewer"])
        auditor(i) == Existing(df.rows[i]["Réponse de l'auditeur"])
        source(j) == CHOOSE i \in shown : df.rows[i]["Num"] = df.rows[j]["Num"]
        updated(j) == df.rows[j]["Num"] # NaN
                      /\ \E i \in shown : df.rows[i]["Num"] = df.rows[j]["Num"]
    IN  [df EXCEPT !.rows =
            [j \in DOMAIN df.rows |->
                IF updated(j)
                THEN [df.rows[j] EXCEPT
                        !["Commentaire du reviewer"] = reviewer(source(j)),
                        !["Réponse de l'auditeur"] = auditor(source(j))]
                ELSE df.rows[j]]]

\* lines 1325-1336: the non-conformity table prepared for editing
ResumeNcTable(nc) ==
    LET filled == EnsureColumns(nc, COMMUNICATION_COLUMNS, 1)
        commented == IF HasCol(filled, "Commentaire")
                        /\ ~HasCol(filled, "Commentaire du reviewer")
                     THEN SetColFrom(filled, "Commentaire du reviewer", "Commentaire")
                     ELSE filled
    IN  IF HasCol(commented, "Plan d'action")
           /\ ~HasCol(commented, "Plan d'action proposé")
        THEN SetColFrom(commented, "Plan d'action proposé", "Plan d'action")
        ELSE commented

NcTabRaises(df) ==
    /\ df.rows # <<>>
    /\ \/ \E c \in {"Num", "Score", "Explication", "Explication détaillée"} :
              ~HasCol(df, c)
       \/ \E i, j \in DOMAIN df.rows : i # j /\ df.rows[i]["Num"] = df.rows[j]["Num"]

STATUS_OPTIONS == {"En attente", "En cours", "Terminé", "Reporté", "Annulé"}

\* lines 1349-1494: every row is displayed and updated from its widgets;
\* ui.deadline is the date the date box answers
UpdateNc(df, ui) ==
    [df EXCEPT !.rows =
        [i \in DOMAIN df.rows |->
            [c \in DOMAIN df.rows[i] |->
                CASE c = "Commentaire du reviewer" ->
                        IF i = 1 /\ ~IsNone(ui.edit) THEN The(ui.edit)
                        ELSE Existing(df.rows[i][c])
                  [] c = "Date limite" -> ui.deadline
                  [] c = "Statut" -> IF df.rows[i][c] \in STATUS_OPTIONS
                                     THEN df.rows[i][c] ELSE "En attente"
                  [] c \in Range(COMMUNICATION_COLUMNS) -> Existing(df.rows[i][c])
                  [] OTHER -> df.rows[i][c]]]]

\* what the user does in one run of resume mode
ResumeUi(tab, content_filter, edit, deadline, save) ==
    [tab |-> tab, score_filter |-> "Tous", chapitre_filter |-> "Tous",
     content_filter |-> content_filter, show_responses |-> TRUE,
     edit |-> edit, deadline |-> deadline, save |-> save]

DefaultResumeUi == ResumeUi("Profile", "Explications non vides", None, "", FALSE)

\* lines 1153-1498: the tab of the run.  prepared is the table prepared for
\* editing, stored the table put in the session state, work_data the loaded
\* sheets as they are after the tab
ResumeTab(work_data, ui) ==
    LET shown(table, raised, data, stored) ==
            [raised |-> raised, prepared |-> Some(table), work_data |-> data,
             stored |-> stored]
    IN  CASE ui.tab = "Profile" /\ HasKey(work_data, "profile") ->
                LET sheet == Get(work_data, "profile")
                    table == ResumeProfileTable(sheet)
                IN  shown(table, FALSE,
                          Put(work_data, "profile",
                              clean_dataframe_for_editor(sheet, PROFILE_COLUMNS).df),
                          Some(Edited(table, ui.edit)))
          [] ui.tab = "Checklist" /\ HasKey(work_data, "checklist") ->
                LET table == ResumeChecklistTable(Get(work_data, "checklist"))
                IN  IF ChecklistTabRaises(table, ui)
                    THEN shown(table, TRUE, work_data, None)
                    ELSE shown(table, FALSE, work_data,
                               IF FilteredRows(table, ui) = {} THEN None
                               ELSE Some(UpdateChecklist(table, ui)))
          [] ui.tab = "Non-conformities" /\ HasKey(work_data, "nc") ->
                LET table == ResumeNcTable(Get(work_data, "nc"))
                IN  IF NcTabRaises(table) THEN shown(table, TRUE, work_data, None)
                    ELSE shown(table, FALSE, work_data,
                               IF table.rows = <<>> THEN None
                               ELSE Some(UpdateNc(table, ui)))
          [] OTHER -> [raised |-> FALSE, prepared |-> None, work_data |-> work_data,
                       stored |-> None]

\* lines 1506-1548: the workbook of "Générer nouvelle sauvegarde".  The loop
\* of lines 1551-1559 calls worksheet.cell, which the writer's sheets do not
\* have: its first iteration breaks and the sheets stay as written.
UpdatedSave(work_data, profile, checklist, nc) ==
    LET sheet(name, edited, key) ==
            IF ~IsNone(edited) THEN << <<name, to_excel(The(edited))>> >>
            ELSE IF HasKey(work_data, key)
            THEN << <<name, to_excel(Get(work_data, key))>> >>
            ELSE <<>>
    IN  Workbook(
            << <<"METADATA",
                 to_excel(MetadataFrame("travail_repris", "travail_modifie",
                              "Communication Reviewer/Auditeur - Mise à jour"))>> >>
            \o sheet("Profile_Communication", profile, "profile")
            \o sheet("Checklist_Communication", checklist, "checklist")
            \o sheet("NonConformities_ActionPlan", nc, "nc"))

\* the store placed before the test of line 1143
StoredWorkData_BeforeTest(loaded, tab) ==
    IF IsNone(loaded.work_data) THEN None ELSE Some(tab.work_data)

\* lines 1143-1150: st.session_state['loaded_work_data'] after the load; the
\* store is in the branch of the accepted file
StoredWorkData(loaded, tab) ==
    IF IsNone(loaded.work_data) THEN loaded_work_data ELSE Some(tab.work_data)

\* one run of resume mode with file in the uploader, lines 1140-1572: loaded
\* is what load_work_from_excel returns and tab what the displayed tab does,
\* each computed once
ResumeRun(file, ui) ==
    \E loaded \in {load_work_from_excel(file)} :
    \E tab \in {IF IsNone(loaded.work_data) THEN [stored |-> None]
                 ELSE ResumeTab(The(loaded.work_data), ui)} :
    LET accepted == ~IsNone(loaded.work_data)
        stores(name) == accepted /\ ui.tab = name /\ ~IsNone(tab.stored)
        profile == IF stores("Profile") THEN tab.stored ELSE edited_profile_work
        checklist == IF stores("Checklist") THEN tab.stored ELSE edited_checklist_work
        nc == IF stores("Non-conformities") THEN tab.stored ELSE edited_nc_work
    IN  /\ uploaded_work_file' = Some(file)
        /\ load_result' = Some(loaded)
        /\ edited_profile_work' = profile
        /\ edited_checklist_work' = checklist
        /\ edited_nc_work' = nc
        /\ loaded_work_data' = StoredWorkData(loaded, tab)
        /\ IF accepted
           THEN /\ prepared' = Some([tab |-> ui.tab, table |-> tab.prepared,
                                     raised |-> tab.raised])
                /\ work_file' = IF ui.save /\ ~tab.raised
                                THEN Some(UpdatedSave(tab.work_data, profile, checklist, nc))
                                ELSE None
           ELSE /\ prepared' = None
                /\ work_file' = None

-----------------------------------------------------------------------------
(* The runs of report mode on the documents of the model; the initial state *)

\* lines 607-684 on every document and id table of the model
Extraction(doc, response) ==
    [doc |-> doc, response |-> response,
     flattened_json_data |-> flatten_json_safe(doc, ""),
     profile_data |-> ProfileOf(doc),
     stage |-> ExtractChecklist(doc, response)]

Runs == {Extraction(doc, response) : doc \in Documents, response \in Responses}

Comments == {"", "ok"}

ProcessDocument ==
    /\ \E run \in Runs : ReportRun(run, DefaultUi)
    /\ UNCHANGED resumeVars

ProcessInvalidFile ==
    /\ ReportRunInvalidJson
    /\ UNCHANGED resumeVars

InitSession ==
    /\ current_profile_data = None
    /\ current_checklist_data = None
    /\ current_non_conformities = None
    /\ edited_profile = None
    /\ edited_checklist = None
    /\ edited_nc = None
    /\ json_data = None
    /\ run_errors = {}
    /\ run_raised = FALSE
    /\ uuid_mapping_df = None
    /\ final_report = None

InitDoc ==
    /\ InitSession
    /\ flattened_json_data = None
    /\ selected_labels = <<>>
    /\ extracted_data = None

InitSave == save_args = None /\ work_file = None
InitLoad == uploaded_work_file = None /\ load_result = None
InitResume ==
    /\ prepared = None
    /\ edited_profile_work = None
    /\ edited_checklist_work = None
    /\ edited_nc_work = None
    /\ loaded_work_data = None
    /\ resumed_from = None

Init == InitDoc /\ InitSave /\ InitLoad /\ InitResume

NextDoc == ProcessDocument \/ ProcessInvalidFile

SpecDoc == Init /\ [][NextDoc]_vars

-----------------------------------------------------------------------------
(* Saving the work of report mode and loading the file again               *)

\* the id table that resolves the entries of the model
ID_TABLE == CHOOSE r \in Responses : r.status_code = "200" /\ r.csv.rows # <<>>

\* the empty list and the full lists whose entries come in the order u1, u2, u3
Rank(entry) == CASE entry[1] = "u1" -> 1 [] entry[1] = "u2" -> 2 [] OTHER -> 3

SaveLists == {s \in WellFormedLists :
                /\ Len(s) \in {0, MaxEntries}
                /\ \A i, j \in DOMAIN s : i < j => Rank(s[i]) < Rank(s[j])}

\* the runs on complete documents
SaveRuns == {Extraction(Document(6, "dict", Some("Usine 1"), s), ID_TABLE) :
                s \in SaveLists}

CONTENT_FILTERS == {"Explications non vides", "Tous", "Explications vides"}

SaveUis ==
    {Ui(tab, comment, "Explications non vides", save) :
        tab \in {"Profile", "Non-conformities"}, comment \in Comments, save \in BOOLEAN}
    \cup {Ui("Checklist", comment, f, save) :
            comment \in Comments, f \in CONTENT_FILTERS, save \in BOOLEAN}
    \cup {[Ui("Checklist", comment, "Explications non vides", save)
                EXCEPT !.show_responses = FALSE] :
            comment \in Comments, save \in BOOLEAN}

\* a run of report mode in which the user edits a tab; the session of the
\* model stays in report mode until the saved file is resumed
Review ==
    /\ IsNone(loaded_work_data)
    /\ \E run \in SaveRuns, ui \in SaveUis : ~ui.save /\ ReportRun(run, ui)
    /\ UNCHANGED resumeVars

\* a run of report mode in which the user presses "Générer la sauvegarde"
GenerateSave ==
    /\ IsNone(loaded_work_data)
    /\ \E run \in SaveRuns, ui \in SaveUis : ui.save /\ ReportRun(run, ui)
    /\ UNCHANGED resumeVars

\* the downloaded file is given to the uploader of resume mode, line 1140
LoadSavedWork ==
    /\ ~IsNone(work_file)
    /\ \E tab \in {"Profile", "Checklist", "Non-conformities"} :
          ResumeRun(The(work_file), [DefaultResumeUi EXCEPT !.tab = tab])
    /\ UNCHANGED <<docVars, save_args, resumed_from>>

NextSave == Review \/ GenerateSave \/ LoadSavedWork

SpecSave == Init /\ [][NextSave]_vars

-----------------------------------------------------------------------------
(* The workbooks of the model                                              *)
MaxRows == 2

\* which commentary columns a sheet has: the legacy names only, the current
\* names only, both, or none
SCHEMAS == {"legacy", "current", "both", "none"}

LEGACY_COLUMNS == <<"Commentaire", "Plan d'action">>

\* the cell of row i in a commentary column of a workbook of the model
CommentCell(c, i) ==
    CASE c = "Commentaire" -> IF i = 2 THEN "" ELSE "ancien commentaire"
      [] c = "Plan d'action" -> IF i = 2 THEN "" ELSE "ancien plan"
      [] c = "Commentaire du reviewer" -> IF i = 1 THEN "" ELSE "commentaire actuel"
      [] c = "Plan d'action proposé" -> IF i = 1 THEN "" ELSE "plan actuel"
      [] c = "Réponse de l'auditeur" -> "réponse"
      [] c = "Statut" -> IF i = 1 THEN "En cours" ELSE "Clos"
      [] c = "Date limite" -> IF i = 1 THEN "2024-02-01" ELSE ""
      [] OTHER -> ""

\* the first n of the business records with the commentary columns of the
\* schema: legacy and current are the legacy and current names of the sheet
Sheet(business_columns, records, n, schema, legacy, current) ==
    LET cols == business_columns
                \o (IF schema \in {"legacy", "both"} THEN legacy ELSE <<>>)
                \o (IF schema \in {"current", "both"} THEN current ELSE <<>>)
    IN  [cols |-> cols,
         rows |-> [i \in 1..n |->
                     [c \in Range(cols) |->
                         IF c \in Range(business_columns) THEN records[i][c]
                         ELSE CommentCell(c, i)]]]

PROFILE_RECORDS ==
    << [Champ |-> "Nom du site à auditer", Valeur |-> "Usine 1"],
       [Champ |-> "Pays", Valeur |-> "N/A"],
       [Champ |-> "Code GLN", Valeur |-> "123"] >>

BUSINESS_COLUMNS == <<"Num", "Score", "Chapitre", "Explication",
                      "Explication détaillée", "Réponse">>

Requirement(num, score, text) ==
    [c \in Range(BUSINESS_COLUMNS) |->
        CASE c = "Num" -> num
          [] c = "Score" -> score
          [] c = "Chapitre" -> "1"
          [] OTHER -> text]

\* a requirement without explanation, then requirements with one
CHECKLIST_RECORDS ==
    << Requirement("1.1.2", "C", "N/A"), Requirement("1.1.1", "A", "text"),
       Requirement("1.1.3", "D", "text") >>

NC_RECORDS ==
    << Requirement("1.1.2", "C", "N/A"), Requirement("1.1.3", "D", "text"),
       Requirement("1.1.4", "B", "text") >>

\* a work save of n rows per sheet; the sheets have the old names when the
\* commentary columns are not the current ones
WorkFile(schema, n) ==
    LET old == schema \in {"legacy", "none"}
        comments == <<"Commentaire du reviewer", "Réponse de l'auditeur">>
    IN  Workbook(
          << <<"METADATA",
               to_excel(MetadataFrame("123", "Usine 1", "Communication Reviewer/Auditeur"))>>,
             <<IF old THEN "Profile_Work" ELSE "Profile_Communication",
               Sheet(<<"Champ", "Valeur">>, PROFILE_RECORDS, n, schema,
                     <<"Commentaire">>, comments)>>,
             <<IF old THEN "Checklist_Work" ELSE "Checklist_Communication",
               Sheet(BUSINESS_COLUMNS, CHECKLIST_RECORDS, n, schema,
                     <<"Commentaire">>, comments)>>,
             <<IF old THEN "NonConformities_Work" ELSE "NonConformities_ActionPlan",
               Sheet(BUSINESS_COLUMNS, NC_RECORDS, n, schema,
                     LEGACY_COLUMNS, COMMUNICATION_COLUMNS)>> >>)

\* the workbooks a session of the model starts from: every schema with
\* MaxRows rows, and the legacy schema with fewer rows
ORIGINALS == {<<schema, MaxRows>> : schema \in SCHEMAS}
             \cup {<<"legacy", n>> : n \in 0..(MaxRows - 1)}

\* a workbook that is not a work save
OtherWorkbook ==
    Workbook(<< <<"Feuil1", [cols |-> <<"Num">>, rows |-> << [Num |-> "1.1.1"] >>]>> >>)

\* what the user does in a run of the model: the Profile tab with or without
\* a comment typed, the Checklist tab under each content filter or with a
\* comment typed, the Non-conformities tab left as it is or filled in; with
\* or without "Générer nouvelle sauvegarde"
ResumeUis ==
    {ResumeUi("Profile", "Explications non vides", edit, "", save) :
        edit \in {None, Some("revu")}, save \in BOOLEAN}
    \cup {ResumeUi("Checklist", f, None, "", save) :
            f \in CONTENT_FILTERS, save \in BOOLEAN}
    \cup {ResumeUi("Checklist", "Tous", Some("revu"), "", save) : save \in BOOLEAN}
    \cup {ResumeUi("Non-conformities", "Explications non vides", None, "", save) :
            save \in BOOLEAN}
    \cup {ResumeUi("Non-conformities", "Explications non vides", Some("revu"), TODAY, save) :
            save \in BOOLEAN}

MaxCycles == 1

Typed(ui) == ~IsNone(ui.edit)

\* The user starts a session of resume mode with a workbook.  resumed_from
\* records which one, whether a comment has been typed since, and how many
\* updated saves have been uploaded again.
ResumeWork ==
    /\ IsNone(resumed_from)
    /\ \E original \in ORIGINALS, ui \in ResumeUis :
          /\ ResumeRun(WorkFile(original[1], original[2]), ui)
          /\ resumed_from' = Some([schema |-> original[1], n |-> original[2],
                                   typed |-> Typed(ui), cycles |-> 0])
    /\ UNCHANGED <<docVars, save_args>>

\* the user gives the uploader a workbook that is not a work save
ResumeOtherWorkbook ==
    /\ ResumeRun(OtherWorkbook, DefaultResumeUi)
    /\ UNCHANGED <<docVars, save_args, resumed_from>>

\* the user acts on the page: the run is on the workbook already uploaded
ContinueWork ==
    /\ ~IsNone(resumed_from) /\ ~IsNone(uploaded_work_file)
    /\ \E ui \in ResumeUis :
          /\ ResumeRun(The(uploaded_work_file), ui)
          /\ resumed_from' = Some([The(resumed_from) EXCEPT !.typed = @ \/ Typed(ui)])
    /\ UNCHANGED <<docVars, save_args>>

\* the user uploads the updated save that was just downloaded
ResumeUpdatedSave ==
    /\ ~IsNone(resumed_from) /\ ~IsNone(work_file)
    /\ The(resumed_from).cycles < MaxCycles
    /\ \E ui \in ResumeUis :
          /\ ResumeRun(The(work_file), ui)
          /\ resumed_from' = Some([The(resumed_from) EXCEPT
                                      !.typed = @ \/ Typed(ui), !.cycles = @ + 1])
    /\ UNCHANGED <<docVars, save_args>>

NextResume == ResumeWork \/ ResumeOtherWorkbook \/ ContinueWork \/ ResumeUpdatedSave

SpecResume == Init /\ [][NextResume]_vars

-----------------------------------------------------------------------------
(* The workbooks given to the uploader of resume mode                      *)

\* the METADATA sheets of the model, as the cells of the file; none when the
\* workbook has no such sheet
MetadataSheets ==
    LET full == to_excel(MetadataFrame("123", "Usine 1", "Communication Reviewer/Auditeur"))
        row == full.rows[1]
        typed(t) == [full EXCEPT !.rows = << [row EXCEPT !["Type"] = t] >>]
        without(cols) ==
            [cols |-> SelectSeq(METADATA_COLUMNS, LAMBDA c : c \notin cols),
             rows |-> << [c \in Range(METADATA_COLUMNS) \ cols |-> row[c]] >>]
    IN  { None,
          Some([full EXCEPT !.rows = <<>>]),
          Some(without({"Type"})),
          Some(typed("IFS_REPORT")),
          Some(typed("ifs_work_save")),
          Some(typed("")),
          Some([full EXCEPT !.rows = << [row EXCEPT !["Type"] = "IFS_REPORT"], row >>]),
          Some(full),
          Some([full EXCEPT !.rows = << row, [row EXCEPT !["Type"] = "IFS_REPORT"] >>]),
          Some(without({"COID"})),
          Some(without({"Date"})),
          Some(without({"Company_Name", "Purpose"})) }

\* which of its two names a sheet of the workbook has: none, the current
\* one, the old one, or both
NAMINGS == {"absent", "current", "old", "both"}

Named(naming, current, old, sheet) ==
    (IF naming \in {"old", "both"} THEN << <<old, sheet>> >> ELSE <<>>)
    \o (IF naming \in {"current", "both"} THEN << <<current, sheet>> >> ELSE <<>>)

UploadedFile(metadata, profile, checklist, nc) ==
    LET work == WorkFile("current", 1).sheets
    IN  Workbook((IF IsNone(metadata) THEN <<>> ELSE << <<"METADATA", The(metadata)>> >>)
                 \o Named(profile, "Profile_Communication", "Profile_Work", work[2][2])
                 \o Named(checklist, "Checklist_Communication", "Checklist_Work", work[3][2])
                 \o Named(nc, "NonConformities_ActionPlan", "NonConformities_Work",
                          work[4][2]))

\* a file that pd.read_excel cannot read
UnreadableFile == [readable |-> FALSE, sheets |-> <<>>]

UploadedFiles ==
    {UploadedFile(metadata, profile, checklist, nc) :
        metadata \in MetadataSheets, profile \in NAMINGS,
        checklist \in {"current"}, nc \in {"absent", "old"}}
    \cup {UnreadableFile}

\* the user gives a file to the uploader of resume mode
UploadWorkbook ==
    /\ \E file \in UploadedFiles : ResumeRun(file, DefaultResumeUi)
    /\ UNCHANGED <<docVars, save_args, resumed_from>>

NextLoad == UploadWorkbook

SpecLoad == Init /\ [][NextLoad]_vars

-----------------------------------------------------------------------------
(* C1                                                                      *)

\* an empty text and a missing value are the same commentary
SameCell(x, y) == x = y \/ {x, y} \subseteq {"", NaN}

\* the same rows, with the same value in every column, whatever the order
\* of the columns
SameRows(loaded, saved) ==
    /\ Len(loaded.rows) = Len(saved.rows)
    /\ \A i \in DOMAIN saved.rows :
          /\ DOMAIN loaded.rows[i] = DOMAIN saved.rows[i]
          /\ \A c \in DOMAIN saved.rows[i] :
                SameCell(loaded.rows[i][c], saved.rows[i][c])

\* the file of the last save has been loaded again
SavedFileLoaded ==
    /\ ~IsNone(save_args)
    /\ ~IsNone(load_result)
    /\ ~SaveRaises(The(save_args))
    /\ uploaded_work_file = Some(save_work_to_excel(The(save_args)))

\* C1: loading the file that save_work_to_excel wrote gives back the profile,
\* checklist and non-conformity tables that were saved, row for row, with
\* every value and every commentary field equal to what it was before the
\* save.
C1_RoundTrip ==
    SavedFileLoaded =>
        LET saved == SaveFrames(The(save_args))
            loaded == The(load_result).work_data
        IN  /\ ~IsNone(loaded)
            /\ HasKey(The(loaded), "profile")
            /\ SameRows(Get(The(loaded), "profile"), Get(saved, "Profile_Communication"))
            /\ HasKey(The(loaded), "checklist")
            /\ SameRows(Get(The(loaded), "checklist"),
                        Get(saved, "Checklist_Communication"))
            /\ IF HasKey(saved, "NonConformities_ActionPlan")
               THEN /\ HasKey(The(loaded), "nc")
                    /\ SameRows(Get(The(loaded), "nc"),
                                Get(saved, "NonConformities_ActionPlan"))
               ELSE ~HasKey(The(loaded), "nc")

-----------------------------------------------------------------------------
(* C2, C3, C4, C5                                                          *)

\* the run displayed the tab and prepared its table
PreparedFor(tab) ==
    /\ ~IsNone(prepared)
    /\ The(prepared).tab = tab
    /\ ~IsNone(The(prepared).table)

PreparedTable == The(The(prepared).table)

\* the sheet as load_work_from_excel returned it
LoadedSheet(key) == Get(The(The(load_result).work_data), key)

\* the sheet has the legacy column and not the current one
LegacyOnly(sheet, legacy, current) == HasCol(sheet, legacy) /\ ~HasCol(sheet, current)

\* column current of table holds, row by row, the values of column legacy
\* of sheet; an empty text and a missing value count as the same value
CopiedFrom(table, current, sheet, legacy) ==
    /\ HasCol(table, current)
    /\ Len(table.rows) = Len(sheet.rows)
    /\ \A i \in DOMAIN sheet.rows :
          SameCell(table.rows[i][current], sheet.rows[i][legacy])

\* C2: when the non-conformity sheet of the resumed workbook has "Plan
\* d'action" but not "Plan d'action proposé" (resp. "Commentaire" but not
\* "Commentaire du reviewer"), the table prepared for editing has the current
\* column holding, row by row, the values of the legacy column.
C2_LegacyNcAliasing ==
    PreparedFor("Non-conformities") =>
        /\ LegacyOnly(LoadedSheet("nc"), "Plan d'action", "Plan d'action proposé")
              => CopiedFrom(PreparedTable, "Plan d'action proposé",
                            LoadedSheet("nc"), "Plan d'action")
        /\ LegacyOnly(LoadedSheet("nc"), "Commentaire", "Commentaire du reviewer")
              => CopiedFrom(PreparedTable, "Commentaire du reviewer",
                            LoadedSheet("nc"), "Commentaire")

\* C3: when the profile sheet of the resumed workbook has "Commentaire" but
\* not "Commentaire du reviewer", the table handed to the editor has
\* "Commentaire du reviewer" holding, row by row, the values of "Commentaire".
C3_LegacyProfileAliasing ==
    PreparedFor("Profile") =>
        (LegacyOnly(LoadedSheet("profile"), "Commentaire", "Commentaire du reviewer")
            => CopiedFrom(PreparedTable, "Commentaire du reviewer",
                          LoadedSheet("profile"), "Commentaire"))

\* the checklist sheet of the workbook the session started from, as read
OriginalChecklist ==
    ReadSheet(WorkFile(The(resumed_from).schema, The(resumed_from).n).sheets[3][2])

\* the uploaded workbook is an updated save
IsUpdatedSave(file) ==
    Get(file.sheets, "METADATA").rows[1]["COID"] = "travail_repris"

SaveAliased(sheet) == ProfileSaveFrame(<<>>, Some(sheet))

\* C5: for a sheet that has the current column ("Commentaire du reviewer",
\* "Plan d'action proposé"), with or without the legacy column next to it,
\* the table prepared on resume has the values of the sheet in that column,
\* and so has the table that save_work_to_excel writes from it; the aliasing
\* applied to an aliased table changes nothing.
C5_AliasingIdempotent ==
    /\ PreparedFor("Checklist") =>
          /\ HasCol(LoadedSheet("checklist"), "Commentaire du reviewer")
                => Column(PreparedTable, "Commentaire du reviewer")
                      = Column(LoadedSheet("checklist"), "Commentaire du reviewer")
          /\ ResumeChecklistTable(PreparedTable) = PreparedTable
    /\ PreparedFor("Non-conformities") =>
          /\ \A c \in {"Commentaire du reviewer", "Plan d'action proposé"} :
                HasCol(LoadedSheet("nc"), c)
                    => Column(PreparedTable, c) = Column(LoadedSheet("nc"), c)
          /\ ResumeNcTable(PreparedTable) = PreparedTable
    /\ PreparedFor("Profile") =>
          /\ HasCol(LoadedSheet("profile"), "Commentaire du reviewer")
                => Column(SaveAliased(LoadedSheet("profile")), "Commentaire du reviewer")
                      = Column(LoadedSheet("profile"), "Commentaire du reviewer")
          /\ SaveAliased(SaveAliased(LoadedSheet("profile")))
                = SaveAliased(LoadedSheet("profile"))

\* a checklist sheet with both columns, holding different values, is resumed
C5_Witness ==
    /\ PreparedFor("Checklist")
    /\ HasCol(LoadedSheet("checklist"), "Commentaire du reviewer")
    /\ HasCol(LoadedSheet("checklist"), "Commentaire")
    /\ \E i \in DOMAIN PreparedTable.rows :
          LoadedSheet("checklist").rows[i]["Commentaire"]
              # LoadedSheet("checklist").rows[i]["Commentaire du reviewer"]

-----------------------------------------------------------------------------
(* C6                                                                      *)

\* the workbook carries the marker of a work save: its METADATA sheet has a
\* first row whose Type cell is "IFS_WORK_SAVE"
MarkerMatches(file) ==
    /\ file.readable
    /\ HasKey(file.sheets, "METADATA")
    /\ LET metadata == Get(file.sheets, "METADATA")
       IN  /\ metadata.rows # <<>>
           /\ HasCol(metadata, "Type")
           /\ metadata.rows[1]["Type"] = "IFS_WORK_SAVE"

REJECTION_MESSAGES ==
    {"Ce fichier n'est pas un fichier de travail sauvegardé.",
     "Ce fichier n'est pas un fichier de travail IFS valide.",
     "Erreur lors du chargement du fichier de travail"}

\* C6: load_work_from_excel returns no work data, with a message, for every
\* workbook whose METADATA sheet is absent, has no row, has no Type column or
\* has a first row whose Type is not "IFS_WORK_SAVE"; it returns work data
\* only for a workbook that carries the marker, and it never raises.
C6_RejectsNonWorkSaves ==
    ~IsNone(load_result) =>
        LET file == The(uploaded_work_file)
            result == The(load_result)
        IN  /\ ~MarkerMatches(file) =>
                  /\ IsNone(result.work_data)
                  /\ result.message \in REJECTION_MESSAGES
                  /\ IsNone(prepared)
            /\ ~IsNone(result.work_data) => MarkerMatches(file)

\* a workbook whose METADATA sheet has no row, or no Type column, was
\* uploaded and rejected
C6_Witness ==
    /\ ~IsNone(load_result)
    /\ IsNone(The(load_result).work_data)
    /\ HasKey(The(uploaded_work_file).sheets, "METADATA")
    /\ LET metadata == Get(The(uploaded_work_file).sheets, "METADATA")
       IN  metadata.rows = <<>> \/ ~HasCol(metadata, "Type")

-----------------------------------------------------------------------------
(* Requirement resolution: the claims                                      *)

\* the number of leading keys of PATH_KEYS that v holds, each one a key of a
\* dict
RECURSIVE PresentDepth(_, _)
PresentDepth(v, d) ==
    IF d = Len(PATH_KEYS) \/ v.type # "dict" THEN d
    ELSE IF ~HasKey(v.items, PATH_KEYS[d + 1]) THEN d
    ELSE PresentDepth(Get(v.items, PATH_KEYS[d + 1]), d + 1)

\* the value under the last key of PATH_KEYS that v holds
RECURSIVE DeepestValue(_, _)
DeepestValue(v, d) ==
    IF d = PresentDepth(v, d) THEN v
    ELSE DeepestValue(Get(v.items, PATH_KEYS[d + 1]), d + 1)

\* resultScorings is in the document and is a dict of entries
HasScorings(doc) ==
    PresentDepth(doc, 0) = Len(PATH_KEYS) /\ DeepestValue(doc, 0).type = "dict"

ScoringsOf(doc) == DeepestValue(doc, 0).items

\* a key of the path is missing from the dict that should hold it
LevelAbsent(doc) ==
    PresentDepth(doc, 0) < Len(PATH_KEYS) /\ DeepestValue(doc, 0).type = "dict"

MISSING_STRUCTURE_ERRORS ==
    {"Structure JSON invalide - données manquantes",
     "Structure de checklist non trouvée dans le fichier JSON",
     "Aucun 'resultScorings' trouvé dans le fichier JSON"}

LastDoc == The(json_data)

\* the rows of the id table of the last run
TableRows == IF IsNone(uuid_mapping_df) THEN <<>> ELSE The(uuid_mapping_df).rows

\* record is the record of the scoring entry uuid, resolved against rows
ResolvedFrom(record, uuid, rows) ==
    /\ record["UUID"] = uuid
    /\ IF \E i \in DOMAIN rows : rows[i]["UUID"] = uuid
       THEN \E i \in DOMAIN rows :
                /\ rows[i]["UUID"] = uuid
                /\ record["Num"] = rows[i]["Num"]
                /\ record["Chapitre"] = rows[i]["Chapitre"]
                /\ record["Theme"] = rows[i]["Theme"]
                /\ record["SSTheme"] = rows[i]["SSTheme"]
       ELSE /\ record["Num"] = uuid
            /\ record["Chapitre"] = "N/A"
            /\ record["Theme"] = "N/A"
            /\ record["SSTheme"] = "N/A"

\* C7: for every document that holds resultScorings and every id table, the
\* checklist of the run has exactly one record per scoring entry, in document
\* order; an entry whose identifier is in the id table gets the Num,
\* Chapitre, Theme and SSTheme of a row of that identifier, any other entry
\* gets its raw identifier as Num and "N/A" for the three others.
C7_NeverDropsAnEntry ==
    (~IsNone(json_data) /\ HasScorings(LastDoc)) =>
        /\ ~run_raised
        /\ ~IsNone(current_checklist_data)
        /\ LET checklist == The(current_checklist_data)
               entries == ScoringsOf(LastDoc)
           IN  /\ Len(checklist) = Len(entries)
               /\ \A i \in DOMAIN entries :
                     ResolvedFrom(checklist[i], entries[i][1], TableRows)

\* the fields of a scoring entry that the resolver reads with a default
MissingIsNA(record, scoring) ==
    LET has(k) == /\ HasKey(scoring.items, "answers")
                  /\ HasKey(Get(scoring.items, "answers").items, k)
    IN  /\ ~has("englishExplanationText") => record["Explication"] = "N/A"
        /\ ~has("explanationText") => record["Explication détaillée"] = "N/A"
        /\ ~has("fieldAnswers") => record["Réponse"] = "N/A"
        /\ ~(/\ HasKey(scoring.items, "score")
             /\ HasKey(Get(scoring.items, "score").items, "label"))
              => record["Score"] = "N/A"

\* C8: reading a scoring entry never raises: whichever fields of the entries
\* are missing (score, score label, answers, explanation, detailed
\* explanation, free-text response), the run produces a record for every
\* entry, in which each missing field is "N/A".
C8_MissingFieldNeverRaises ==
    (~IsNone(json_data) /\ HasScorings(LastDoc)) =>
        /\ ~run_raised
        /\ ~IsNone(current_checklist_data)
        /\ LET checklist == The(current_checklist_data)
               entries == ScoringsOf(LastDoc)
           IN  /\ Len(checklist) = Len(entries)
               /\ \A i \in DOMAIN entries : MissingIsNA(checklist[i], entries[i][2])

\* the checklist part of the document is malformed: a scoring entry cannot be
\* read
MalformedChecklist(doc) ==
    /\ HasScorings(doc)
    /\ \E i \in DOMAIN ScoringsOf(doc) : EntryRaises(ScoringsOf(doc)[i][2])

\* C9: stage isolation: after a run on a document whose checklist part is
\* malformed, the profile extracted from that document is the session's
\* current profile.
C9_ProfileSurvivesMalformedChecklist ==
    (~IsNone(json_data) /\ MalformedChecklist(LastDoc)) =>
        current_profile_data = Some(ProfileOf(LastDoc))

-----------------------------------------------------------------------------
(* C11                                                                     *)

\* the answers of requests.get for which loading the id table fails: an
\* exception, a status other than 200, a required column missing
FailingResponses ==
    {r \in Responses :
        \/ r.kind = "exception"
        \/ r.status_code # "200"
        \/ \E i \in DOMAIN CSV_REQUIRED : ~HasCol(r.csv, CSV_REQUIRED[i])}

\* the last run reported that the id table could not be loaded
LoadFailed == "Erreur lors du chargement du mapping UUID" \in run_errors

\* C11: load_uuid_mapping_from_url returns an empty table for every answer
\* for which the load fails; and after a run in which the load failed, on a
\* document that holds resultScorings, nothing was raised and the checklist
\* has one record per scoring entry, in document order, with the raw
\* identifier as Num.
C11_SoftDegradation ==
    /\ \A r \in FailingResponses :
          load_uuid_mapping_from_url(r) = [df |-> EmptyFrame, error |-> TRUE]
    /\ (~IsNone(json_data) /\ HasScorings(LastDoc) /\ LoadFailed) =>
          /\ ~run_raised
          /\ uuid_mapping_df = Some(EmptyFrame)
          /\ ~IsNone(current_checklist_data)
          /\ LET checklist == The(current_checklist_data)
                 entries == ScoringsOf(LastDoc)
             IN  /\ Len(checklist) = Len(entries)
                 /\ \A i \in DOMAIN entries :
                       /\ checklist[i]["UUID"] = entries[i][1]
                       /\ checklist[i]["Num"] = entries[i][1]


-----------------------------------------------------------------------------
(* Documents whose entries carry any score label                           *)

MaxScored == 2

\* the labels a score can carry: the four compliant ones, deviations, and a
\* spelling that differs from a compliant one by case only
SCORE_LABELS == {"A", "B", "D", "NA", "N/A", "Non applicable", "na"}

ScoredId(i) == CASE i = 1 -> "u1" [] i = 2 -> "u2" [] i = 3 -> "u3" [] OTHER -> "u7"

\* the scoring entries for a sequence of labels: entry i has identifier
\* ScoredId(i) and all its fields
ScoredEntries(labels) == [i \in DOMAIN labels |-> <<ScoredId(i), "full", labels[i]>>]

ScoredRuns ==
    {Extraction(Document(6, "dict", Some("Usine 1"), ScoredEntries(labels)), response) :
        labels \in SeqsUpTo(SCORE_LABELS, MaxScored), response \in Responses}

\* a run of report mode on one of these documents
ProcessScoredDocument ==
    /\ \E run \in ScoredRuns : ReportRun(run, DefaultUi)
    /\ UNCHANGED resumeVars

NextScores == ProcessScoredDocument

SpecScores == Init /\ [][NextScores]_vars

-----------------------------------------------------------------------------
(* C12                                                                     *)

\* the positions of the records of R whose Score is none of the four labels
NonCompliantPositions(R) ==
    {i \in DOMAIN R : R[i]["Score"] \notin {"A", "NA", "N/A", "Non applicable"}}

\* the k-th smallest element of the set of positions K
KthOf(K, k) == CHOOSE i \in K : Cardinality({j \in K : j <= i}) = k

\* C12: the non-conformity list of the session is the checklist restricted
\* to the records whose Score is not "A", "NA", "N/A" or "Non applicable"
\* (exact match): it has one record per such position, in the order of the
\* checklist; and a checklist of one record scored "C" gives exactly that
\* record.
C12_NonConformitiesAreTheSubsequence ==
    ~IsNone(current_checklist_data) =>
        /\ ~IsNone(current_non_conformities)
        /\ LET R == The(current_checklist_data)
               N == The(current_non_conformities)
               K == NonCompliantPositions(R)
           IN  /\ Len(N) = Cardinality(K)
               /\ \A k \in DOMAIN N : N[k] = R[KthOf(K, k)]
               /\ (Len(R) = 1 /\ R[1]["Score"] = "C") => N = R

\* a run on a document with a record scored "na", kept, before a record
\* scored "NA", left out
C12_Witness ==
    /\ ~IsNone(json_data) /\ HasScorings(LastDoc) /\ ~run_raised
    /\ ~IsNone(current_checklist_data)
    /\ Len(The(current_checklist_data)) = 2
    /\ The(current_checklist_data)[1]["Score"] = "na"
    /\ The(current_checklist_data)[2]["Score"] = "NA"
    /\ The(current_non_conformities) = << The(current_checklist_data)[1] >>


-----------------------------------------------------------------------------
(* Documents that are any JSON value                                       *)

MaxItems == 2

SCALARS == {JVal("x"), JNull}

\* the sequences over S of at most n items with distinct first components
DictsUpTo(K, V, n) ==
    {d \in SeqsUpTo(K \X V, n) : \A i, j \in DOMAIN d : i # j => d[i][1] # d[j][1]}

\* a scalar, an array of scalars, an object of one scalar, an empty container
INNER_VALUES ==
    SCALARS
    \cup {JList(s) : s \in SeqsUpTo({JVal("x")}, MaxItems)}
    \cup {JObj(d) : d \in DictsUpTo({"b", "0"}, {JVal("x")}, 1)}

\* the keys of the outer object: one that is a prefix of the others, one that
\* holds the separator, one that ends in an array index
OUTER_KEYS == {"a", "a_b", "a_0"}

JSON_VALUES ==
    INNER_VALUES
    \cup {JList(s) : s \in SeqsUpTo(INNER_VALUES, MaxItems)}
    \cup {JObj(d) : d \in DictsUpTo(OUTER_KEYS, INNER_VALUES, MaxItems)}

JsonRuns ==
    LET response == CHOOSE r \in Responses : r.status_code = "404"
    IN  {Extraction(v, response) : v \in JSON_VALUES}

\* a run of report mode on a file that holds any JSON value
ProcessJsonValue ==
    /\ \E run \in JsonRuns : ReportRun(run, DefaultUi)
    /\ UNCHANGED resumeVars

NextFlatten == ProcessJsonValue

SpecFlatten == Init /\ [][NextFlatten]_vars

-----------------------------------------------------------------------------
(* C13, C14                                                                *)

\* the paths of the scalar leaves of v: the keys and array indices from v
\* down to the leaf
RECURSIVE LeafPaths(_)
LeafPaths(v) ==
    IF v.type = "scalar" THEN {<<>>}
    ELSE UNION {{<<v.items[i][1]>> \o p : p \in LeafPaths(v.items[i][2])} :
                    i \in DOMAIN v.items}

\* the value of v at a path
RECURSIVE ValueAt(_, _)
ValueAt(v, p) ==
    IF p = <<>> THEN v
    ELSE ValueAt(Get(v.items, p[1]), Tail(p))

\* the segments of a path joined with the separator
RECURSIVE JoinPath(_)
JoinPath(p) ==
    IF p = <<>> THEN ""
    ELSE IF Len(p) = 1 THEN p[1]
    ELSE JoinPath(SubSeq(p, 1, Len(p) - 1)) \o "_" \o p[Len(p)]

\* C13: for every JSON value, flatten_json_safe has as many entries as the
\* value has scalar leaves (null counted as a leaf), and every value of the
\* result is a scalar or null.
C13_OneEntryPerLeaf ==
    ~IsNone(flattened_json_data) =>
        LET flattened == The(flattened_json_data)
        IN  /\ Len(flattened) = Cardinality(LeafPaths(LastDoc))
            /\ \A i \in DOMAIN flattened : flattened[i][2].type = "scalar"

\* C14: in a document (an object whose objects have distinct keys), two
\* distinct leaf paths never give the same flattened key, and the entry of
\* the result under the key of a leaf path holds the value of that leaf.
C14_InjectiveOnLeafPaths ==
    (~IsNone(flattened_json_data) /\ LastDoc.type = "dict") =>
        LET flattened == The(flattened_json_data)
            P == LeafPaths(LastDoc)
        IN  /\ \A p, q \in P : p # q => JoinPath(p) # JoinPath(q)
            /\ \A p \in P : HasKey(flattened, JoinPath(p))
                                => Get(flattened, JoinPath(p)) = ValueAt(LastDoc, p)


-----------------------------------------------------------------------------
(* extract_from_flattened on any flattened data and any selection          *)

MaxSelected == 2

\* the labels of the mapping and one that is not in it
LABELS == Range(Keys(FLATTENED_FIELD_MAPPING)) \cup {"Autre"}

\* the selections: at most MaxSelected labels in any order, every label of
\* the mapping in the mapping's order and in the reverse order
SELECTIONS ==
    SeqsUpTo(LABELS, MaxSelected)
    \cup {Keys(FLATTENED_FIELD_MAPPING),
          [i \in DOMAIN FLATTENED_FIELD_MAPPING |->
              FLATTENED_FIELD_MAPPING[Len(FLATTENED_FIELD_MAPPING) + 1 - i][1]]}

\* flattened data: each mapped path is absent, holds a text, or holds null
RECURSIVE FlattenedUpTo(_)
FlattenedUpTo(n) ==
    IF n = 0 THEN {<<>>}
    ELSE LET path == FLATTENED_FIELD_MAPPING[n][2]
         IN  UNION {{f, Append(f, <<path, JVal("v")>>), Append(f, <<path, JNull>>)} :
                        f \in FlattenedUpTo(n - 1)}

FLATTENED_INPUTS == FlattenedUpTo(Len(FLATTENED_FIELD_MAPPING))

\* the arguments of a call that has not returned yet
InitExtract ==
    /\ InitSession /\ InitSave /\ InitLoad /\ InitResume
    /\ flattened_json_data \in {Some(f) : f \in FLATTENED_INPUTS}
    /\ selected_labels \in SELECTIONS
    /\ extracted_data = None

\* lines 38-44: the call returns
ExtractFields ==
    /\ ~IsNone(flattened_json_data)
    /\ IsNone(extracted_data)
    /\ extracted_data' = Some(extract_from_flattened(The(flattened_json_data),
                                                    FLATTENED_FIELD_MAPPING,
                                                    selected_labels))
    /\ UNCHANGED <<current_profile_data, current_checklist_data,
                   current_non_conformities, edited_profile, edited_checklist,
                   edited_nc, json_data, flattened_json_data, selected_labels,
                   run_errors, run_raised, uuid_mapping_df, final_report,
                   saveVars, loadVars, resumeVars>>

NextExtract == ExtractFields

SpecExtract == InitExtract /\ [][NextExtract]_vars

-----------------------------------------------------------------------------
(* C15                                                                     *)

\* C15: the record extract_from_flattened returns has for keys the labels of
\* the mapping that are selected, in the order of the mapping whatever the
\* order of the selection (every label of the mapping when all are
\* selected); the value of a label is the flattened value at its path when
\* the path is present and "N/A" when it is absent.
C15_ExtractedRecord ==
    ~IsNone(extracted_data) =>
        LET extracted == The(extracted_data)
            flattened == The(flattened_json_data)
            mapping == FLATTENED_FIELD_MAPPING
        IN  /\ Keys(extracted) = SelectSeqBy(Keys(mapping), Range(selected_labels))
            /\ Range(Keys(mapping)) \subseteq Range(selected_labels)
                  => Keys(extracted) = Keys(mapping)
            /\ \A i \in DOMAIN extracted :
                  LET flat_path == Get(mapping, extracted[i][1])
                  IN  extracted[i][2] =
                          IF HasKey(flattened, flat_path)
                          THEN Get(flattened, flat_path).value
                          ELSE "N/A"

\* a call with two labels selected in the reverse order of the mapping, one
\* path absent and one present
C15_Witness ==
    /\ ~IsNone(extracted_data)
    /\ selected_labels = <<"Pays", "Nom du site à auditer">>
    /\ The(extracted_data) = << <<"Nom du site à auditer", "N/A">>, <<"Pays", "v">> >>


-----------------------------------------------------------------------------
(* C16                                                                     *)

WORK_SAVE_SHEETS == {"METADATA", "Profile_Communication", "Checklist_Communication",
                     "NonConformities_ActionPlan"}

\* the last run called save_work_to_excel and the call returned a workbook
WorkSaved == ~IsNone(save_args) /\ ~IsNone(work_file)

\* C16: every workbook that save_work_to_excel returns has the metadata
\* sheet, the profile sheet, the checklist sheet and the non-conformity
\* sheet, also when the document has no non-conformity.
C16_AllSheetsPresent ==
    WorkSaved => \A name \in WORK_SAVE_SHEETS : HasKey(The(work_file).sheets, name)


-----------------------------------------------------------------------------
(* save_work_to_excel on in-memory tables of any schema                    *)

EXPORT_SCHEMAS == SCHEMAS \cup {"partial"}

\* an in-memory table of MaxRows rows: with the legacy commentary columns,
\* the current ones, both, none, or the first current one only
ExportTable(business_columns, records, schema, legacy, current) ==
    IF schema = "partial"
    THEN Sheet(business_columns, records, MaxRows, "current", legacy, <<current[1]>>)
    ELSE Sheet(business_columns, records, MaxRows, schema, legacy, current)

\* no edited table, or one of each schema
EditedTables(business_columns, records, legacy, current) ==
    {None} \cup {Some(ExportTable(business_columns, records, schema, legacy, current)) :
                    schema \in EXPORT_SCHEMAS}

\* the company name of the profile: a text, or the null of the document
EXPORT_NAMES == {"Usine 1", NaN}

EXPORT_ARGS ==
    {[profile_data |-> Put(run.profile_data, "Nom du site à auditer", name),
      checklist_data |-> run.stage.checklist_data,
      non_conformities |-> NonConformities(run.stage.checklist_data),
      edited_profile |-> edited_p,
      edited_checklist |-> edited_c,
      edited_nc |-> edited_n,
      coid |-> "123"] :
        run \in SaveRuns, name \in EXPORT_NAMES,
        edited_p \in EditedTables(<<"Champ", "Valeur">>, PROFILE_RECORDS, <<"Commentaire">>,
                                  <<"Commentaire du reviewer", "Réponse de l'auditeur">>),
        edited_c \in EditedTables(BUSINESS_COLUMNS, CHECKLIST_RECORDS, <<"Commentaire">>,
                                  <<"Commentaire du reviewer", "Réponse de l'auditeur">>),
        edited_n \in EditedTables(BUSINESS_COLUMNS, NC_RECORDS, LEGACY_COLUMNS,
                                  COMMUNICATION_COLUMNS)}

\* the arguments of a call that has not returned yet
InitExport ==
    /\ InitDoc /\ InitLoad /\ InitResume
    /\ save_args \in {Some(a) : a \in EXPORT_ARGS}
    /\ work_file = None

reportFrame == <<current_profile_data, current_checklist_data,
                 current_non_conformities, edited_profile, edited_checklist,
                 edited_nc, json_data, flattened_json_data, selected_labels,
                 extracted_data, run_errors, uuid_mapping_df>>

\* lines 164-332: the call returns the workbook
ExportWork ==
    /\ ~IsNone(save_args)
    /\ IsNone(work_file) /\ ~run_raised
    /\ ~SaveRaises(The(save_args))
    /\ work_file' = Some(save_work_to_excel(The(save_args)))
    /\ save_args' = Some(ArgsAfterSave(The(save_args)))
    /\ UNCHANGED <<reportFrame, run_raised, final_report, loadVars, resumeVars>>

\* lines 169-171: the call raises on a company name that is no text, and the
\* handler of line 1104 reports it
ExportRaises ==
    /\ ~IsNone(save_args)
    /\ IsNone(work_file) /\ ~run_raised
    /\ SaveRaises(The(save_args))
    /\ run_raised' = TRUE
    /\ save_args' = Some(ArgsAfterSave(The(save_args)))
    /\ UNCHANGED <<reportFrame, work_file, final_report, loadVars, resumeVars>>

\* lines 378-522 on the same data and tables: create_final_report_excel
\* writes the sheets and assigns to none of its arguments
ExportReport ==
    /\ ~IsNone(save_args)
    /\ IsNone(final_report)
    /\ final_report' = Some(FinalReportFrom(The(save_args)))
    /\ UNCHANGED <<reportFrame, run_raised, saveVars, loadVars, resumeVars>>

NextExport == ExportWork \/ ExportRaises \/ ExportReport

SpecExport == InitExport /\ [][NextExport]_vars


-----------------------------------------------------------------------------
(* C17                                                                     *)

\* the sheet of the workbook that the call returned
WrittenSheet(name) == Get(The(work_file).sheets, name)

\* the in-memory tables of the call: the edited table when there is one, the
\* fields and records of the caller otherwise
InMemoryProfile(a) ==
    IF ~IsNone(a.edited_profile) THEN The(a.edited_profile)
    ELSE [cols |-> <<"Champ", "Valeur">>,
          rows |-> [i \in DOMAIN a.profile_data |->
                      [Champ |-> a.profile_data[i][1], Valeur |-> a.profile_data[i][2]]]]

InMemoryRecords(edited, records) ==
    IF ~IsNone(edited) THEN The(edited) ELSE FrameOf(CHECKLIST_KEYS, records)

\* the sheet has the rows of the table, its columns first and in its order,
\* and its values
KeptIn(sheet, table) ==
    /\ Len(sheet.rows) = Len(table.rows)
    /\ Len(sheet.cols) >= Len(table.cols)
    /\ SubSeq(sheet.cols, 1, Len(table.cols)) = table.cols
    /\ \A r \in DOMAIN table.rows : \A c \in Range(table.cols) :
          SameCell(sheet.rows[r][c], table.rows[r][c])

\* every column of expected that the table lacks is in the sheet, holding in
\* row r the value Filled(c, r)
AddedIn(sheet, table, expected, Filled(_, _)) ==
    \A c \in Range(expected) :
        ~HasCol(table, c) =>
            /\ HasCol(sheet, c)
            /\ \A r \in DOMAIN sheet.rows : SameCell(sheet.rows[r][c], Filled(c, r))

COMMENT_COLUMNS == <<"Commentaire du reviewer", "Réponse de l'auditeur">>

\* the statement for the three sheets: Comment(table, c, r) is the value a
\* column c added to the profile or checklist table gets in row r, Tracking(c)
\* the value of a column c added to the non-conformity table
ExportKeepsAndAdds(Comment(_, _, _), Tracking(_)) ==
    WorkSaved =>
        LET a == The(save_args)
            profile == InMemoryProfile(a)
            checklist == InMemoryRecords(a.edited_checklist, a.checklist_data)
            nc == InMemoryRecords(a.edited_nc, a.non_conformities)
            FilledP(c, r) == Comment(profile, c, r)
            FilledC(c, r) == Comment(checklist, c, r)
            FilledN(c, r) == Tracking(c)
        IN  /\ KeptIn(WrittenSheet("Profile_Communication"), profile)
            /\ AddedIn(WrittenSheet("Profile_Communication"), profile,
                       COMMENT_COLUMNS, FilledP)
            /\ KeptIn(WrittenSheet("Checklist_Communication"), checklist)
            /\ AddedIn(WrittenSheet("Checklist_Communication"), checklist,
                       COMMENT_COLUMNS, FilledC)
            /\ a.non_conformities # <<>> =>
                  /\ KeptIn(WrittenSheet("NonConformities_ActionPlan"), nc)
                  /\ AddedIn(WrittenSheet("NonConformities_ActionPlan"), nc,
                             COMMUNICATION_COLUMNS, FilledN)

EmptyComment(table, c, r) == ""
EmptyTracking(c) == ""

\* the reviewer comment added to a table that has "Commentaire" is that
\* comment; any other added comment is empty
AliasedComment(table, c, r) ==
    IF c = "Commentaire du reviewer" /\ HasCol(table, "Commentaire")
    THEN table.rows[r]["Commentaire"]
    ELSE ""

\* an added status is "En attente"; any other added column is empty
DefaultTracking(c) == IF c = "Statut" THEN "En attente" ELSE ""

-----------------------------------------------------------------------------
(* The columns of the checklist sheet of a work save, lines 250-264 and     *)
(* 938-955                                                                  *)

\* the columns the checklist sheet has when no table of the Checklist tab is
\* in the session: the keys of the records and the two commentary columns
ColumnsWithoutEditedTable(a) ==
    to_excel(ChecklistSaveFrame(a.checklist_data, None)).cols

\* C18: the checklist sheet of a work save has the same columns in the same
\* order whether or not the Checklist tab was rendered before the save
\* (edited table present or absent) and whatever the "show responses" option.
C18_ChecklistColumnsFixed ==
    WorkSaved =>
        WrittenSheet("Checklist_Communication").cols
            = ColumnsWithoutEditedTable(The(save_args))

\* a save made after the Checklist tab put its table in the session
C18_SavedAfterChecklistTab ==
    WorkSaved /\ ~IsNone(The(save_args).edited_checklist)


-----------------------------------------------------------------------------
(* The status of the non-conformity records, lines 1462-1477, 1545-1548     *)

\* the values of the Statut column of a table
StatusesOf(df) ==
    IF HasCol(df, "Statut") THEN {df.rows[i]["Statut"] : i \in DOMAIN df.rows}
    ELSE {}

\* the statuses of the edited non-conformity tables of the session
EditedStatuses ==
    (IF IsNone(edited_nc) THEN {} ELSE StatusesOf(The(edited_nc)))
    \cup (IF IsNone(edited_nc_work) THEN {} ELSE StatusesOf(The(edited_nc_work)))

\* the statuses of the non-conformity sheet of the last workbook written
WrittenStatuses ==
    IF ~IsNone(work_file) /\ HasKey(The(work_file).sheets, "NonConformities_ActionPlan")
    THEN StatusesOf(WrittenSheet("NonConformities_ActionPlan"))
    ELSE {}

\* C19: in every reachable session state the status of every non-conformity
\* record, in the edited tables and in every non-conformity sheet written, is
\* one of En attente, En cours, Terminé, Reporté, Annulé; also after resuming
\* a workbook whose Statut column holds another value or is empty, whichever
\* tab was displayed before the export.
C19_StatusIsOneOfTheFive ==
    EditedStatuses \cup WrittenStatuses \subseteq STATUS_OPTIONS

\* an updated save of a resumed workbook whose Statut column holds "Clos",
\* made when the Non-conformities tab had stored its table
C19_SavedAfterNcTab ==
    /\ ~IsNone(resumed_from) /\ The(resumed_from).schema \in {"current", "both"}
    /\ ~IsNone(edited_nc_work)
    /\ WrittenStatuses # {}


-----------------------------------------------------------------------------
(* Final reports of report mode                                            *)

MaxRequirements == 3

\* the labels of the documents a report is generated for
REPORT_LABELS == {"A", "B", "NA", "N/A"}

ReportRuns ==
    {Extraction(Document(6, "dict", Some("Usine 1"), ScoredEntries(labels)), ID_TABLE) :
        labels \in SeqsUpTo(REPORT_LABELS, MaxRequirements)}

\* the session is on one document: the uploader keeps the file of the first run
SameDocument(run) == IF IsNone(json_data) THEN TRUE ELSE The(json_data) = run.doc

\* a run that displays a tab
ReviewBeforeReport ==
    /\ \E run \in ReportRuns, tab \in {"Profile", "Checklist", "Non-conformities"} :
          /\ SameDocument(run)
          /\ ReportRun(run, Ui(tab, "ok", "Explications non vides", FALSE))
    /\ UNCHANGED resumeVars

\* "Générer le rapport" is pressed
GenerateReport ==
    /\ \E run \in ReportRuns :
          /\ SameDocument(run)
          /\ ReportRun(run, [DefaultUi EXCEPT !.report = TRUE])
    /\ UNCHANGED resumeVars

NextReport == ReviewBeforeReport \/ GenerateReport

SpecReport == Init /\ [][NextReport]_vars

-----------------------------------------------------------------------------
(* C20                                                                     *)

ReportSheets == The(final_report).sheets

\* the cells of the statistics sheet whose metric is name
SummaryValues(name) ==
    IF ~HasKey(ReportSheets, "Résumé_Audit") THEN {}
    ELSE LET sheet == Get(ReportSheets, "Résumé_Audit")
         IN  {sheet.rows[i]["Valeur"] :
                 i \in {j \in DOMAIN sheet.rows : sheet.rows[j]["Métrique"] = name}}

\* the texts that denote the number h / 100 written with at most two
\* decimals, with or without the percent sign
Denotations(h) ==
    LET units == ToString(h \div 100)
        first == ToString((h % 100) \div 10)
        forms == {units \o "." \o first \o ToString(h % 10)}
                 \cup (IF h % 10 = 0 THEN {units \o "." \o first} ELSE {})
                 \cup (IF h % 100 = 0 THEN {units} ELSE {})
    IN  forms \cup {f \o "%" : f \in forms}

\* the texts that denote the number t / 10 written with at most one decimal
OneDecimalDenotations(t) == Denotations(10 * t)

\* the statement, for the rounding that gives Texts(compliant, total)
ComplianceReported(Texts(_, _)) ==
    ~IsNone(final_report) =>
        /\ HasKey(ReportSheets, "Checklist") =>
              LET checklist == Get(ReportSheets, "Checklist")
                  total == Len(checklist.rows)
                  compliant == CountOf(checklist, "Score", "A")
                               + CountOf(checklist, "Score", "NA")
                  reported == SummaryValues("Taux de conformité (%)")
              IN  /\ Cardinality(reported) = 1
                  /\ reported \subseteq Texts(compliant, total)
        /\ LET checklist_data == The(current_checklist_data)
           IN  (/\ checklist_data # <<>>
                /\ \A i \in DOMAIN checklist_data : checklist_data[i]["Score"] = "A")
               => /\ The(current_non_conformities) = <<>>
                  /\ ~HasKey(ReportSheets, "Non-conformities")
                  /\ SummaryValues("Taux de conformité (%)") \subseteq Denotations(10000)
                  /\ SummaryValues("Taux de conformité (%)") # {}

RoundedToTwoDecimals(compliant, total) ==
    Denotations(RoundHalfEven(compliant * 10000, total))

RoundedToOneDecimal(compliant, total) ==
    OneDecimalDenotations(RoundHalfEven(compliant * 1000, total))

\* C20: the compliance percentage of the statistics sheet is compliant / total
\* x 100 rounded to 2 decimals, total being the number of checklist rows; for
\* a document whose entries are all scored "A" there is no non-conformity
\* record and the statistics sheet reports 100% compliance.
C20_ComplianceRoundedToTwoDecimals == ComplianceReported(RoundedToTwoDecimals)

\* a report for a document of three requirements, two of them compliant
C20_TwoOfThree ==
    /\ ~IsNone(final_report)
    /\ HasKey(ReportSheets, "Checklist")
    /\ Len(Get(ReportSheets, "Checklist").rows) = 3
    /\ CountOf(Get(ReportSheets, "Checklist"), "Score", "A") = 2
    /\ CountOf(Get(ReportSheets, "Checklist"), "Score", "B") = 1


-----------------------------------------------------------------------------
(* C21                                                                     *)

\* lines 104-108: the score labels that have a row in the statistics sheet,
\* each with the metric of its row
SCORE_METRICS ==
    << <<"A", "Score A (Conforme)">>, <<"B", "Score B (Écart mineur)">>,
       <<"C", "Score C (Écart majeur)">>, <<"D", "Score D (Critique)">>,
       <<"NA", "Score NA (Non applicable)">> >>

\* the score labels that occur in the checklist sheet of the report
ReportedLabels ==
    {Get(ReportSheets, "Checklist").rows[i]["Score"] :
        i \in DOMAIN Get(ReportSheets, "Checklist").rows}

RECURSIVE SumOfCounts(_, _)
SumOfCounts(df, labels) ==
    IF labels = {} THEN 0
    ELSE LET l == CHOOSE x \in labels : TRUE
         IN  CountOf(df, "Score", l) + SumOfCounts(df, labels \ {l})

\* the per-label rows of the sheet hold the number of rows of their label
CountsAreRowCounts ==
    \A k \in DOMAIN SCORE_METRICS :
        SummaryValues(SCORE_METRICS[k][2])
            = {ToString(CountOf(Get(ReportSheets, "Checklist"), "Score",
                                SCORE_METRICS[k][1]))}

\* C21: the statistics sheet gives the count per score label: every label
\* that occurs in the checklist has a count in the sheet equal to its number
\* of rows, so that the per-label counts add up to the reported total.
C21_CountPerScoreLabel ==
    (~IsNone(final_report) /\ HasKey(ReportSheets, "Checklist")) =>
        /\ CountsAreRowCounts
        /\ ReportedLabels \subseteq {SCORE_METRICS[k][1] : k \in DOMAIN SCORE_METRICS}
        /\ SummaryValues("Total des exigences")
              = {ToString(SumOfCounts(Get(ReportSheets, "Checklist"),
                                      {SCORE_METRICS[k][1] : k \in DOMAIN SCORE_METRICS}))}


-----------------------------------------------------------------------------
(* C22                                                                     *)

\* the last run of resume mode rejected the file of the uploader
Rejected(result) == ~IsNone(result) /\ IsNone(The(result).work_data)

\* C22: a rejected import changes nothing: when load_work_from_excel returns
\* no work data, a message is shown and the session state (the loaded work
\* data, set together with work_mode, and the edited tables of an earlier
\* load) is as it was before the run.
C22_RejectedImportChangesNothing ==
    [][Rejected(load_result') =>
          /\ The(load_result').message # ""
          /\ loaded_work_data' = loaded_work_data
          /\ edited_profile_work' = edited_profile_work
          /\ edited_checklist_work' = edited_checklist_work
          /\ edited_nc_work' = edited_nc_work]_vars

\* a file is rejected in a session that holds the data and an edited table of
\* an earlier load
C22_Witness ==
    /\ Rejected(load_result)
    /\ ~IsNone(loaded_work_data)
    /\ ~IsNone(edited_profile_work)


-----------------------------------------------------------------------------
(* C23                                                                     *)

C23_RaisedWitness ==
    ~IsNone(save_args) /\ SaveRaises(The(save_args)) /\ run_raised


-----------------------------------------------------------------------------
(* C24                                                                     *)

\* C24: a work save is complete whatever filter is active: after any filter
\* selections and comment edits in the Checklist tab, the checklist sheet of
\* the next work save has one row for every requirement of the loaded
\* document, not only for the requirements the filter shows.
C24_SaveHasEveryRequirement ==
    WorkSaved =>
        LET sheet == WrittenSheet("Checklist_Communication")
            checklist_data == The(save_args).checklist_data
        IN  /\ Len(sheet.rows) = Len(checklist_data)
            /\ \A i \in DOMAIN checklist_data :
                  sheet.rows[i]["Num"] = WriteCell(checklist_data[i]["Num"])

\* a save made with no table of the Checklist tab in the session
C24_SavedWithoutChecklistTab ==
    WorkSaved /\ IsNone(The(save_args).edited_checklist)
       /\ The(save_args).checklist_data # <<>>


-----------------------------------------------------------------------------
(* C25                                                                     *)

\* every row of the sheet is a record of records: same number, score and
\* explanation
RowsBelongTo(sheet, records) ==
    \A r \in DOMAIN sheet.rows :
        \E i \in DOMAIN records :
            \A c \in {"Num", "Score", "Explication"} :
                sheet.rows[r][c] = WriteCell(records[i][c])

\* C25: no stale data across documents: after a document was loaded and its
\* tabs displayed and another document is loaded, a work save contains only
\* records of the current document; the edited tables that an export reads
\* never belong to another document.
C25_NoStaleData ==
    WorkSaved =>
        /\ RowsBelongTo(WrittenSheet("Checklist_Communication"),
                        The(save_args).checklist_data)
        /\ HasKey(The(work_file).sheets, "NonConformities_ActionPlan") =>
              RowsBelongTo(WrittenSheet("NonConformities_ActionPlan"),
                           The(save_args).non_conformities)


-----------------------------------------------------------------------------
(* Documents resolved with any id table                                    *)

MaxMappingRows == 2

\* the rows the CSV of the id table can have
MAPPING_ROWS ==
    {MappingRow(uuid, num, chapitre) :
        uuid \in {"u1", "u2"}, num \in {"1.1.1", "1.1.2"}, chapitre \in {"1", " 1 ", "2"}}

MappingResponses ==
    {[kind |-> "response", status_code |-> "200", csv |-> Csv(rows)] :
        rows \in SeqsUpTo(MAPPING_ROWS, MaxMappingRows)}

MappedRuns ==
    {Extraction(Document(6, "dict", Some("Usine 1"), ScoredEntries(labels)), response) :
        labels \in SeqsUpTo({"A", "B"}, 2), response \in MappingResponses}

\* the first run of a session, on the Checklist tab with every requirement
\* displayed
ProcessMappedDocument ==
    /\ IsNone(json_data)
    /\ \E run \in MappedRuns : ReportRun(run, Ui("Checklist", "ok", "Tous", FALSE))
    /\ UNCHANGED resumeVars

NextMapping == ProcessMappedDocument

SpecMapping == Init /\ [][NextMapping]_vars

-----------------------------------------------------------------------------
(* C26                                                                     *)

\* C26: commentary keys are unique: in every checklist produced by the
\* resolver, two distinct scoring entries never have the same display number
\* (Num), so the fields keyed by Num of one record are never shared with
\* those of another.
C26_DisplayNumbersAreUnique ==
    ~IsNone(current_checklist_data) =>
        LET checklist_data == The(current_checklist_data)
        IN  \A i, j \in DOMAIN checklist_data :
                i # j => checklist_data[i]["Num"] # checklist_data[j]["Num"]

\* the id table of the last run gives every Num to one UUID at most
NumsGivenOnce ==
    IsNone(uuid_mapping_df) \/
        \A i, j \in DOMAIN The(uuid_mapping_df).rows :
            LET rows == The(uuid_mapping_df).rows
            IN  rows[i]["Num"] = rows[j]["Num"] => rows[i]["UUID"] = rows[j]["UUID"]


-----------------------------------------------------------------------------
(* C27                                                                     *)

\* the number that the statistics sheet holds for the metric, 0 when the
\* sheet has no row for it
SummaryNumber(name) ==
    IF SummaryValues(name) = {} THEN 0
    ELSE CHOOSE n \in 0..(MaxRequirements + 1) : SummaryValues(name) = {ToString(n)}

\* the report was written from the records of the document, no edited table
\* of the checklist or the non-conformities being in the session
ReportOfTheRecords ==
    /\ ~IsNone(final_report) /\ HasKey(ReportSheets, "Checklist")
    /\ IsNone(edited_checklist) /\ IsNone(edited_nc)

\* C27: the checklist is partitioned by score: the number of requirements
\* counted as compliant (in the quick statistics and in the audit summary)
\* plus the number of non-conformity records equals the total number of
\* requirements.
C27_PartitionedByScore ==
    /\ ~IsNone(current_checklist_data) =>
          LET stats == QuickStats(The(current_checklist_data),
                                  The(current_non_conformities))
          IN  stats.conformes + stats.non_conformites = stats.total
    /\ ReportOfTheRecords =>
          SummaryNumber("Score A (Conforme)") + SummaryNumber("Score NA (Non applicable)")
              + SummaryNumber("Non-conformités totales")
            = SummaryNumber("Total des exigences")

\* the labels of the last checklist are among A, B, C, D and NA
OnlyCountedLabels ==
    ~IsNone(current_checklist_data) =>
        \A i \in DOMAIN The(current_checklist_data) :
            The(current_checklist_data)[i]["Score"] \in {"A", "B", "C", "D", "NA"}

-----------------------------------------------------------------------------
(* Report mode: the three tabs of one uploaded document, lines 785-1105     *)

TABS == {"Profile", "Checklist", "Non-conformities"}

\* one run of the script with a document uploaded and one of the tabs
\* selected in the radio of line 785; the document stays in the uploader
\* while the user goes from tab to tab
DisplayTab ==
    /\ \E run \in Runs, tab \in TABS :
          /\ SameDocument(run)
          /\ ReportRun(run, Ui(tab, "", "Explications non vides", FALSE))
    /\ UNCHANGED resumeVars

NextTabs == DisplayTab

SpecTabs == Init /\ [][NextTabs]_vars

-----------------------------------------------------------------------------
(* C28                                                                     *)

\* C28: when the loaded document lacks the checklist structure, displaying
\* any of the three tabs completes without raising, and the only error
\* reported is the missing-structure one.
C28_TabsWithoutStructure ==
    (~IsNone(json_data) /\ LevelAbsent(LastDoc)) =>
        /\ ~run_raised
        /\ run_errors \subseteq MISSING_STRUCTURE_ERRORS

-----------------------------------------------------------------------------
(* Resume mode: the Checklist tab under its content filters,               *)
(* lines 1185-1309                                                         *)

MaxFilterRows == 2

\* the requirements a saved checklist can hold, under one of two numbers:
\* with an explanation, with a blank one, or with 'N/A', which read_excel
\* gives back as NaN
FILTER_RECORDS ==
    {Requirement(num, "B", text) :
        num \in {"1.1.1", "1.1.2"}, text \in {"N/A", " ", "text"}}

\* a work save with the current column names whose checklist sheet holds
\* the records
FilterWorkFile(records) ==
    LET comments == <<"Commentaire du reviewer", "Réponse de l'auditeur">>
    IN  Workbook(
          << <<"METADATA",
               to_excel(MetadataFrame("123", "Usine 1", "Communication Reviewer/Auditeur"))>>,
             <<"Profile_Communication",
               Sheet(<<"Champ", "Valeur">>, PROFILE_RECORDS, 1, "current",
                     <<"Commentaire">>, comments)>>,
             <<"Checklist_Communication",
               Sheet(BUSINESS_COLUMNS, records, Len(records), "current",
                     <<"Commentaire">>, comments)>> >>)

FilterWorkbooks ==
    {FilterWorkFile(records) : records \in SeqsUpTo(FILTER_RECORDS, MaxFilterRows)}

\* the Checklist tab under each content filter, with or without a comment
\* typed in the first displayed requirement
FilterUis ==
    {ResumeUi("Checklist", f, edit, "", FALSE) :
        f \in CONTENT_FILTERS, edit \in {None, Some("revu")}}

SameWorkbook(file) ==
    IF IsNone(uploaded_work_file) THEN TRUE ELSE The(uploaded_work_file) = file

\* a run of resume mode on the Checklist tab; the workbook stays in the
\* uploader while the user changes the filter and types.  resumed_from
\* records what the user did in the run.
EditUnderFilter ==
    /\ \E file \in FilterWorkbooks, ui \in FilterUis :
          /\ SameWorkbook(file)
          /\ ResumeRun(file, ui)
          /\ resumed_from' = Some([ui |-> ui])
    /\ UNCHANGED <<docVars, save_args>>

NextFilter == EditUnderFilter

SpecFilter == Init /\ [][NextFilter]_vars

-----------------------------------------------------------------------------
(* C29                                                                     *)

COMMENT_FIELDS == {"Commentaire du reviewer", "Réponse de l'auditeur"}

\* the last run displayed requirements of the loaded checklist and stored
\* the table
ChecklistStored ==
    /\ ~IsNone(resumed_from) /\ ~IsNone(prepared)
    /\ ~The(prepared).raised
    /\ FilteredRows(PreparedTable, The(resumed_from).ui) # {}

\* C29: in resume mode, editing the checklist under a filter keeps every
\* row: the table stored as the edited checklist has all rows of the loaded
\* checklist sheet, the reviewer comment and auditor response of the rows
\* hidden by the filter are unchanged, and only rows whose Num is displayed
\* get their two comment fields replaced by the displayed values.
C29_FilteredEditKeepsEveryRow ==
    ChecklistStored =>
        LET sheet == Get(The(loaded_work_data), "checklist")
            shown == FilteredRows(PreparedTable, The(resumed_from).ui)
            stored == The(edited_checklist_work)
        IN  /\ DOMAIN stored.rows = DOMAIN sheet.rows
            /\ \A j \in DOMAIN sheet.rows : \A c \in Range(sheet.cols) \ COMMENT_FIELDS :
                   stored.rows[j][c] = sheet.rows[j][c]
            /\ \A j \in DOMAIN sheet.rows \ shown : \A c \in COMMENT_FIELDS :
                   stored.rows[j][c] = sheet.rows[j][c]
            /\ \A j \in DOMAIN sheet.rows :
                   (\E c \in COMMENT_FIELDS : stored.rows[j][c] # sheet.rows[j][c])
                       => \E i \in shown : sheet.rows[i]["Num"] = sheet.rows[j]["Num"]

\* every requirement of the loaded checklist has a number of its own
NumsOfTheSheetDiffer ==
    ~IsNone(loaded_work_data) =>
        LET rows == Get(The(loaded_work_data), "checklist").rows
        IN  \A i, j \in DOMAIN rows : i # j => rows[i]["Num"] # rows[j]["Num"]

-----------------------------------------------------------------------------
(* C30                                                                     *)

\* the row of the METADATA sheet of a workbook
MetadataOf(file) == Get(file.sheets, "METADATA").rows[1]

\* the last run of resume mode produced an updated save of the workbook in
\* the uploader
UpdatedSaveMade == ~IsNone(work_file) /\ ~IsNone(uploaded_work_file)

\* C30: the identity of a work save survives a resume: after load, edit and
\* "updated save" in resume mode, the METADATA sheet of the new workbook has
\* the same COID and company name as the METADATA sheet of the workbook
\* that was loaded, over any number of load / re-save cycles.
C30_IdentitySurvivesResume ==
    UpdatedSaveMade =>
        LET new == MetadataOf(The(work_file))
            loaded == MetadataOf(The(uploaded_work_file))
        IN  /\ new["COID"] = loaded["COID"]
            /\ new["Company_Name"] = loaded["Company_Name"]

\* the marker of the work save is the one of the workbook that was loaded
MarkerSurvivesResume ==
    UpdatedSaveMade =>
        MetadataOf(The(work_file))["Type"] = MetadataOf(The(uploaded_work_file))["Type"]

====
